---- MODULE Spec2Model ----
(***************************************************************************)
(* A model of the agent shell: the MemoryStore (memories table, retention  *)
(* sweep, searches and reads), the retry primitive withRetry and the turns *)
(* of an Agent (process, handleToolCalls, extractAndSaveMemory).           *)
(*                                                                         *)
(* Times are seconds (Math.floor(Date.now() / 1000)).  Importances are     *)
(* REAL in the store; the model keeps them as integers in tenths, so 3 is  *)
(* 0.3 and 20 is 2.0: only their order is ever used.                       *)
(***************************************************************************)
EXTENDS Integers, Sequences, FiniteSets, TLC

\* ------------------------------------------------------------------ bounds
\* Rows ever inserted into the memories table in one behaviour.
MaxFacts == 3
\* The clock runs from 0 to MaxDays days.
MaxDays == 2
\* A read is taken only while the rows it serves have been read fewer times.
MaxAccess == 1
\* The largest maxAttempts a withRetry call is given.
MaxAttempts == 3
\* Calls of Agent.process in one behaviour.
MaxTurns == 2
\* The most tool calls one response of the model requests.
MaxToolCalls == 2

\* --------------------------------------------------------------- constants
DaySeconds == 86400

Null == "null"
Users == {"u1", "u2"}
\* The live runtimes: Agent.sessionId and Agent.userId.
Agents == {[sessionId |-> "s1", userId |-> "u1"],
           [sessionId |-> "s2", userId |-> "u2"]}
Importances == {1, 3}
Contents == {<<"a", "B">>}
Queries == {<< >>, <<"b">>, <<"c">>}
\* LIMIT arguments: 1, and the 20 of Agent.loadLongTermMemory.
Limits == {1, 20}
\* MemoryExpiryConfig values a store is constructed with.
ExpiryConfigs ==
    {[enabled |-> TRUE, maxMemoriesPerUser |-> 1, maxAgeDays |-> 1, minImportance |-> 3]}

VARIABLES
    memories,      \* the rows of the memories table
    nextId,        \* the next id generateId hands out
    now,           \* Math.floor(Date.now() / 1000)
    expiryConfig,  \* MemoryStore.expiryConfig
    last,          \* what the most recent store operation did and returned
    rOpts,         \* withRetry: opts, the options with their defaults filled in
    rPc,           \* withRetry: where the call stands
    rAttempt,      \* withRetry: the loop variable attempt
    rErrors,       \* withRetry: what fn threw, invocation by invocation
    rOnRetry,      \* withRetry: the calls of opts.onRetry, as <<attempt, error>>
    rDelays,       \* withRetry: the delays slept
    rOutcome,      \* withRetry: the value returned or the error thrown to the caller
    messages,      \* the rows of the messages table, in insertion order
    toolCalls,     \* the rows of the tool_calls table, in insertion order
    tPc,           \* Agent.process: where the turn stands
    tTurns,        \* Agent.process: the calls made so far
    tText,         \* Agent.process: userMessage
    tBefore,       \* the messages and tool_calls tables as the turn under way found them
    tResponse,     \* Agent.process: response, or the error llmClient.chat threw
    tIndex,        \* Agent.handleToolCalls: the position in response.toolCalls
    tResults,      \* Agent.handleToolCalls: results
    tOutcome,      \* what process returned or threw to its caller
    tExtracting,   \* calls of extractAndSaveMemory awaiting llmClient.chat
    tExtraction,   \* how the most recent extractAndSaveMemory ended
    tExtracted,    \* extracted, the trimmed text of its completion
    tHistory,      \* the history the current turn sent to llmClient.chat
    tAttempt,      \* the attempts withRetry has made for that chat call
    tExecuted,     \* the calls of AgentTool.execute made so far: the tools' names
    sessions,      \* the rows of the sessions table
    agents,        \* AgentRunner.agents: the live Agent under each session id
    nextInstance,  \* the Agent objects constructed so far, plus one
    runs,          \* the calls of AgentRunner.run, in the order they were made
    sLast,         \* what the most recent session or message operation did
    defaultRunner, \* the module-level defaultRunner: Null, or the AgentRunner made
    storeOpen      \* FALSE once close() was called on the MemoryStore of the runner

storeVars == <<memories, nextId, now, expiryConfig, last>>
retryVars == <<rOpts, rPc, rAttempt, rErrors, rOnRetry, rDelays, rOutcome>>
turnVars == <<messages, toolCalls, tPc, tTurns, tText, tBefore, tResponse, tIndex,
              tResults, tOutcome, tExtracting, tExtraction, tExtracted,
                   tHistory, tAttempt, tExecuted>>
sessionVars == <<sessions, agents, nextInstance, runs, sLast, defaultRunner, storeOpen>>
vars == <<memories, nextId, now, expiryConfig, last,
          rOpts, rPc, rAttempt, rErrors, rOnRetry, rDelays, rOutcome,
          messages, toolCalls, tPc, tTurns, tText, tBefore, tResponse, tIndex,
          tResults, tOutcome, tExtracting, tExtraction, tExtracted, tHistory, tAttempt,
          tExecuted,
          sessions, agents, nextInstance, runs, sLast, defaultRunner, storeOpen>>

\* -------------------------------------------------------------- sequences
RECURSIVE SeqsOf(_)
\* Every enumeration of the finite set S without repetition.
SeqsOf(S) ==
    IF S = {} THEN {<< >>}
    ELSE UNION {{<<x>> \o t : t \in SeqsOf(S \ {x})} : x \in S}

Range(s) == {s[i] : i \in 1..Len(s)}

Min(a, b) == IF a <= b THEN a ELSE b

\* LIMIT n of a result: n < 0 is no limit in SQLite.
Limit(s, n) == IF n < 0 THEN s ELSE SubSeq(s, 1, Min(n, Len(s)))

\* getDefaultSystemPrompt(), with nothing appended.
DefaultSystemPrompt == [prompt |-> "default", context |-> << >>]

\* ------------------------------------------------------------------- rows
\* What a method declared void returns: nothing, where a count n would be <<n>>.
Void == << >>
NoOp == [op |-> "none", user |-> Null, key |-> Null, result |-> << >>,
         swept |-> {}, ageDeleted |-> {}, capDeleted |-> {}, returned |-> Void]

\* INSERT INTO memories (...) VALUES (?, ?, ?, ?, ?, 0, ?, ?, ?)
AddMemoryRow(id, content, sessionId, importance, userId, t) ==
    [id |-> id, sessionId |-> sessionId, userId |-> userId, content |-> content,
     importance |-> importance, accessCount |-> 0, createdAt |-> t, accessedAt |-> t]

\* lower(ch) for the ASCII letters of the model's alphabet
Fold(ch) == IF ch = "A" THEN "a" ELSE IF ch = "B" THEN "b" ELSE ch

\* content LIKE '%query%': SQLite's LIKE ignores the case of ASCII letters.
Like(content, query) ==
    \E i \in 0..(Len(content) - Len(query)) :
        \A j \in 1..Len(query) : Fold(content[i + j]) = Fold(query[j])

\* column = ? in SQL: never true of a NULL on either side.
SqlEq(a, b) == a # Null /\ b # Null /\ a = b

\* ImportantFirst with the sort keys swapped: ORDER BY accessed_at DESC, importance DESC.
ImportantFirstByAccess(a, b) ==
    \/ a.accessedAt > b.accessedAt
    \/ a.accessedAt = b.accessedAt /\ a.importance >= b.importance

\* ORDER BY importance DESC, accessed_at DESC: a may come before b.
ImportantFirst(a, b) ==
    \/ a.importance > b.importance
    \/ a.importance = b.importance /\ a.accessedAt >= b.accessedAt

\* ExpendableFirst with the sort keys swapped: ORDER BY accessed_at ASC, importance ASC.
ExpendableFirstByAccess(a, b) ==
    \/ a.accessedAt < b.accessedAt
    \/ a.accessedAt = b.accessedAt /\ a.importance <= b.importance

\* ORDER BY importance ASC, accessed_at ASC: a may come before b.
ExpendableFirst(a, b) ==
    \/ a.importance < b.importance
    \/ a.importance = b.importance /\ a.accessedAt <= b.accessedAt

\* The orders in which SQLite may return the rows S under ORDER BY importance dir,
\* accessed_at dir: rows that tie on the sort key come in an order the statement
\* does not fix.
OrderedBy(S, dir) ==
    {s \in SeqsOf(S) : \A i \in 1..Len(s) : \A j \in i..Len(s) :
        IF dir = "DESC" THEN ImportantFirst(s[i], s[j]) ELSE ExpendableFirst(s[i], s[j])}

\* SELECT * FROM memories WHERE user_id = ?
RowsOfUser(mem, u) == {m \in mem : SqlEq(m.userId, u)}

\* WHERE (session_id = ? OR session_id IS NULL OR user_id = ?) AND content LIKE ?
SearchRows(mem, query, key) ==
    {m \in mem : /\ \/ SqlEq(m.sessionId, key)
                     \/ m.sessionId = Null
                     \/ SqlEq(m.userId, key)
                  /\ Like(m.content, query)}

\* What MemoryStore.searchMemories(query, key, limit) may return:
\* ... ORDER BY importance DESC, accessed_at DESC LIMIT ?
SearchMemoriesRows(mem, query, key, limit) ==
    {Limit(ord, limit) : ord \in OrderedBy(SearchRows(mem, query, key), "DESC")}

\* What MemoryStore.getMemoriesByUser(userId, limit) may select:
\* SELECT * FROM memories WHERE user_id = ? ORDER BY importance DESC, accessed_at DESC LIMIT ?
GetMemoriesByUserRows(mem, u, limit) ==
    {Limit(ord, limit) : ord \in OrderedBy(RowsOfUser(mem, u), "DESC")}

\* UPDATE memories SET access_count = access_count + 1, accessed_at = ? WHERE id = ?
UpdateMemoryAccess(mem, ids, t) ==
    {IF m.id \in ids
        THEN [m EXCEPT !.accessCount = @ + 1, !.accessedAt = t]
        ELSE m : m \in mem}

\* The store as constructed on an empty database.
InitStore ==
    /\ memories = {}
    /\ nextId = 1
    /\ now = 0
    /\ expiryConfig \in ExpiryConfigs
    /\ last = NoOp

NoOutcome == [kind |-> "none", error |-> Null]

\* No withRetry call under way.
RetryIdle ==
    /\ rOpts = Null
    /\ rPc = "idle"
    /\ rAttempt = 0
    /\ rErrors = << >>
    /\ rOnRetry = << >>
    /\ rDelays = << >>
    /\ rOutcome = NoOutcome

NoResponse == [kind |-> "none", content |-> << >>, toolCalls |-> << >>,
               error |-> [msg |-> Null, by |-> Null]]
NoTurnOutcome == [kind |-> "none", content |-> << >>, error |-> [msg |-> Null, by |-> Null]]

\* No call of Agent.process made yet: the session exists and holds no message.
TurnIdle ==
    /\ messages = << >>
    /\ toolCalls = << >>
    /\ tPc = "ready"
    /\ tTurns = 0
    /\ tText = << >>
    /\ tBefore = [messages |-> << >>, toolCalls |-> << >>]
    /\ tResponse = NoResponse
    /\ tIndex = 0
    /\ tResults = << >>
    /\ tOutcome = NoTurnOutcome
    /\ tExtracting = 0
    /\ tExtraction = Null
    /\ tExtracted = << >>
    /\ tHistory = [system |-> DefaultSystemPrompt, messages |-> << >>]
    /\ tAttempt = 0
    /\ tExecuted = << >>

NoSessionOp == [op |-> "none", sessionId |-> Null, userId |-> Null, limit |-> << >>,
                result |-> << >>, error |-> Null, at |-> 0]

\* No session created, no Agent constructed, AgentRunner.run never called.
SessionsIdle ==
    /\ sessions = {}
    /\ agents = {}
    /\ nextInstance = 1
    /\ runs = << >>
    /\ sLast = NoSessionOp
    /\ defaultRunner = Null
    /\ storeOpen = TRUE

Init == InitStore /\ RetryIdle /\ TurnIdle /\ SessionsIdle

\* Agent.addMemory(content, importance, tags, useUserId) -> MemoryStore.addMemory
AddMemory(a, content, importance, useUserId) ==
    /\ nextId <= MaxFacts
    /\ LET userId == IF useUserId THEN a.userId ELSE Null
           sessionId == IF useUserId THEN Null ELSE a.sessionId
       IN memories' = memories \cup
              {AddMemoryRow(nextId, content, sessionId, importance, userId, now)}
    /\ nextId' = nextId + 1
    /\ last' = [NoOp EXCEPT !.op = "add"]
    /\ UNCHANGED <<now, expiryConfig>>
    /\ UNCHANGED <<retryVars, turnVars, sessionVars>>

\* MemoryStore.getMemoriesByUser(userId, limit): the rows are served as selected and
\* each served row's access is then recorded.
GetMemoriesByUser(u, limit) ==
    \E rows \in GetMemoriesByUserRows(memories, u, limit) :
        /\ \A m \in Range(rows) : m.accessCount < MaxAccess
        /\ memories' = UpdateMemoryAccess(memories, {m.id : m \in Range(rows)}, now)
        /\ last' = [NoOp EXCEPT !.op = "list", !.user = u, !.result = rows]
        /\ UNCHANGED <<nextId, now, expiryConfig>>
        /\ UNCHANGED <<retryVars, turnVars, sessionVars>>

\* Agent.searchMemories(query, limit) -> MemoryStore.searchMemories(query, this.userId, limit)
SearchMemories(a, query, limit) ==
    \E rows \in SearchMemoriesRows(memories, query, a.userId, limit) :
        /\ last' = [NoOp EXCEPT !.op = "search", !.user = a.userId, !.key = a.sessionId,
                                 !.result = rows]
        /\ UNCHANGED <<memories, nextId, now, expiryConfig>>
        /\ UNCHANGED <<retryVars, turnVars, sessionVars>>

\* MemoryStore.deleteMemory(id)
DeleteMemory(id) ==
    /\ \E m \in memories : m.id = id
    /\ memories' = {m \in memories : m.id # id}
    /\ last' = [NoOp EXCEPT !.op = "delete"]
    /\ UNCHANGED <<nextId, now, expiryConfig>>
    /\ UNCHANGED <<retryVars, turnVars, sessionVars>>

\* AgedOut taking the age from accessed_at instead of created_at.
AgedOutByAccess(mem, u, maxAgeTimestamp, minImportance) ==
    {m \in {r \in mem : r.userId # Null /\ r.userId = u} :
        m.accessedAt < maxAgeTimestamp /\ m.importance < minImportance}

\* AgedOut without the importance test: every old row goes.
AgedOutAnyImportance(mem, u, maxAgeTimestamp, minImportance) ==
    {m \in {r \in mem : r.userId # Null /\ r.userId = u} : m.createdAt < maxAgeTimestamp}

\* DELETE FROM memories WHERE user_id = ? AND created_at < ? AND importance < ?
AgedOut(mem, u, maxAgeTimestamp, minImportance) ==
    {m \in RowsOfUser(mem, u) :
        m.createdAt < maxAgeTimestamp /\ m.importance < minImportance}

\* Excess deleting one row too few: LIMIT count - maxMemoriesPerUser - 1.
ExcessOneShort(mem, u, maxMemoriesPerUser, ord) ==
    LET count == Cardinality({r \in mem : r.userId # Null /\ r.userId = u}) IN
    IF count > maxMemoriesPerUser
       THEN {ord[i] : i \in 1..(count - maxMemoriesPerUser - 1)}
       ELSE {}

\* DELETE FROM memories WHERE rowid IN (SELECT rowid FROM memories WHERE user_id = ?
\* ORDER BY importance ASC, accessed_at ASC LIMIT excess), run when the count of the
\* user's rows exceeds maxMemoriesPerUser. ord is the order the subquery returns.
Excess(mem, u, maxMemoriesPerUser, ord) ==
    LET count == Cardinality(RowsOfUser(mem, u)) IN
    IF count > maxMemoriesPerUser
       THEN Range(Limit(ord, count - maxMemoriesPerUser))
       ELSE {}

\* SweepUser with the count taken before the age pass: the capacity pass deletes
\* as many rows as the user was over the cap when the sweep began.
SweepUserCountingFirst(mem, u, cfg, t, ord) ==
    LET aged == AgedOut(mem, u, t - cfg.maxAgeDays * DaySeconds, cfg.minImportance)
        count == Cardinality(RowsOfUser(mem, u))
    IN [aged |-> aged,
        excess |-> IF count > cfg.maxMemoriesPerUser
                      THEN Range(Limit(ord, count - cfg.maxMemoriesPerUser))
                      ELSE {}]

\* One round of the loop of cleanupExpiredMemories, for user u: the rows the age
\* pass and then the capacity pass delete.
SweepUser(mem, u, cfg, t, ord) ==
    LET aged == AgedOut(mem, u, t - cfg.maxAgeDays * DaySeconds, cfg.minImportance)
        rest == mem \ aged
    IN [aged |-> aged, excess |-> Excess(rest, u, cfg.maxMemoriesPerUser, ord)]

\* SweptUsers without the test on options.userId: every user is swept.
SweptUsersIgnoringTarget(mem, target) == {m.userId : m \in mem} \ {Null}

\* SELECT DISTINCT user_id FROM memories WHERE user_id IS NOT NULL, less the users
\* the loop skips (options.userId given and different).
SweptUsers(mem, target) ==
    {u \in {m.userId : m \in mem} \ {Null} : target = Null \/ u = target}

\* MemoryStore.cleanupExpiredMemories({userId: target})
CleanupExpiredMemories(target) ==
    IF ~expiryConfig.enabled
    THEN /\ last' = [NoOp EXCEPT !.op = "sweep", !.user = target, !.returned = Void]
         /\ UNCHANGED <<memories, nextId, now, expiryConfig>>
         /\ UNCHANGED <<retryVars, turnVars, sessionVars>>
    ELSE LET swept == SweptUsers(memories, target)
             cutoff == now - expiryConfig.maxAgeDays * DaySeconds
             aged == UNION {AgedOut(memories, u, cutoff, expiryConfig.minImportance) :
                               u \in swept}
             rest == memories \ aged
         IN \E ord \in OrderedBy(UNION {RowsOfUser(rest, u) : u \in swept}, "ASC") :
              LET gone == [u \in swept |->
                              SweepUser(memories, u, expiryConfig, now,
                                        SelectSeq(ord, LAMBDA m : m.userId = u))]
                  capped == UNION {gone[u].excess : u \in swept}
              IN /\ memories' = (memories \ aged) \ capped
                 /\ last' = [NoOp EXCEPT !.op = "sweep", !.user = target, !.swept = swept,
                                         !.ageDeleted = aged, !.capDeleted = capped,
                                         !.returned = Void]
                 /\ UNCHANGED <<nextId, now, expiryConfig>>
                 /\ UNCHANGED <<retryVars, turnVars, sessionVars>>

\* The clock moves on by a day.
Tick ==
    /\ now < MaxDays * DaySeconds
    /\ now' = now + DaySeconds
    /\ last' = NoOp
    /\ UNCHANGED <<memories, nextId, expiryConfig>>
    /\ UNCHANGED <<retryVars, turnVars, sessionVars>>

\* The store under writes, reads, deletions and retention sweeps.
Next ==
    \/ \E a \in Agents, c \in Contents, i \in Importances, b \in BOOLEAN :
          AddMemory(a, c, i, b)
    \/ \E u \in Users, n \in Limits : GetMemoriesByUser(u, n)
    \/ \E id \in 1..MaxFacts : DeleteMemory(id)
    \/ \E target \in Users \cup {Null} : CleanupExpiredMemories(target)
    \/ Tick

Spec == Init /\ [][Next]_vars

\* The store under writes, searches and the reads of Agent.loadLongTermMemory
\* (getMemoriesByUser(this.userId, 20)).
NextSearch ==
    \/ \E a \in Agents, c \in Contents, i \in Importances, b \in BOOLEAN :
          AddMemory(a, c, i, b)
    \/ \E a \in Agents : GetMemoriesByUser(a.userId, 20)
    \/ \E a \in Agents, q \in Queries, n \in Limits : SearchMemories(a, q, n)
    \/ Tick

SpecSearch == Init /\ [][NextSearch]_vars

\* ------------------------------------------------------------- withRetry
\* error.message values, as the characters String.prototype.includes tests:
\* a connection reset, HTTP 503, HTTP 429, HTTP 401 and HTTP 405.
MsgReset == <<"E", "C", "O", "N", "N", "R", "E", "S", "E", "T">>
Msg503 == <<"5", "0", "3">>
Msg429 == <<"4", "2", "9">>
Msg401 == <<"4", "0", "1">>
Msg405 == <<"4", "0", "5">>
Messages == {MsgReset, Msg503, Msg429, Msg401, Msg405}
\* The message of an error thrown by the onRetry callback itself.
MsgOnRetry == <<"c", "b">>
\* new Error('Retry failed with unknown error')
MsgUnknown == <<"u", "n", "k", "n", "o", "w", "n">>

\* What fn may settle with: a value, or a thrown value (an Error, or a bare string
\* thrown as is).
ThrownValues ==
    {[msg |-> m, isError |-> TRUE] : m \in Messages}
        \cup {[msg |-> MsgReset, isError |-> FALSE]}

\* The retryCondition callbacks: () => true, the default; one that answers false
\* for every error; one that answers true for HTTP 401 alone.
Holds(retryCondition, error) ==
    CASE retryCondition = "always" -> TRUE
      [] retryCondition = "never" -> FALSE
      [] retryCondition = "on401" -> error.msg = Msg401
\* The options a caller passes; Null is a callback left out.
RetryOptionSets ==
    [maxAttempts : 0..MaxAttempts, initialDelay : {100}, maxDelay : {150, 1000},
     backoffMultiplier : {2}, jitter : BOOLEAN,
     retryCondition : {Null, "never", "on401"},
     onRetry : {Null, "returns", "throws"}]

\* a ?? b, for the callbacks
Coalesce(a, b) == IF a = Null THEN b ELSE a

\* opts: the options with the defaults of withRetry filled in. The callers of the
\* model give every number and the jitter flag, and may leave the callbacks out.
Opts(options) ==
    [maxAttempts |-> options.maxAttempts,
     initialDelay |-> options.initialDelay,
     maxDelay |-> options.maxDelay,
     backoffMultiplier |-> options.backoffMultiplier,
     jitter |-> options.jitter,
     retryCondition |-> Coalesce(options.retryCondition, "always"),
     onRetry |-> Coalesce(options.onRetry, "returns")]

\* msg.includes(pat)
Includes(msg, pat) ==
    \E i \in 0..(Len(msg) - Len(pat)) : \A j \in 1..Len(pat) : msg[i + j] = pat[j]

\* isRetriableError(error, retryCondition)
IsRetriableError(error, retryCondition) ==
    IF \/ Includes(error.msg, MsgReset)
       \/ Includes(error.msg, <<"E", "T", "I", "M", "E", "D", "O", "U", "T">>)
       \/ Includes(error.msg, <<"E", "N", "O", "T", "F", "O", "U", "N", "D">>)
       \/ Includes(error.msg, <<"E", "A", "I", "_", "A", "G", "A", "I", "N">>)
    THEN TRUE
    ELSE IF Includes(error.msg, <<"5">>) THEN TRUE
    ELSE IF Includes(error.msg, <<"4", "2", "9">>) THEN TRUE
    ELSE IF retryCondition # Null THEN Holds(retryCondition, error)
    ELSE FALSE

RECURSIVE Pow(_, _)
\* Math.pow(b, e) for a natural e
Pow(b, e) == IF e = 0 THEN 1 ELSE b * Pow(b, e - 1)

\* addJitter(delay): delay + (Math.random() - 0.5) * 2 * (delay * 0.1), any value
\* from delay - 10% up to but not reaching delay + 10%; the model draws the ends
\* and the middle.
AddJitter(delay) == {delay - delay \div 10, delay, delay + delay \div 10 - 1}

\* calculateDelay without the Math.min against maxDelay.
CalculateDelayUncapped(attempt, opts) ==
    LET delay == opts.initialDelay * Pow(opts.backoffMultiplier, attempt - 1)
    IN IF opts.jitter THEN AddJitter(delay) ELSE {delay}

\* The values calculateDelay(attempt, options) may return.
CalculateDelay(attempt, opts) ==
    LET delay == Min(opts.initialDelay * Pow(opts.backoffMultiplier, attempt - 1),
                     opts.maxDelay)
    IN IF opts.jitter THEN AddJitter(delay) ELSE {delay}

\* error instanceof Error ? error : new Error(String(error))
ToError(thrown) ==
    IF thrown.isError THEN thrown ELSE [thrown EXCEPT !.isError = TRUE, !.by = "wrapped"]

\* withRetry is called with some options.
InitRetry ==
    /\ InitStore
    /\ TurnIdle
    /\ SessionsIdle
    /\ rOpts \in RetryOptionSets
    /\ rPc = "start"
    /\ rAttempt = 0
    /\ rErrors = << >>
    /\ rOnRetry = << >>
    /\ rDelays = << >>
    /\ rOutcome = NoOutcome

\* The error thrown after the loop: lastError || new Error('Retry failed ...').
AfterLoop ==
    IF rErrors # << >>
       THEN ToError(rErrors[Len(rErrors)])
       ELSE [msg |-> MsgUnknown, isError |-> TRUE, by |-> "withRetry", attempt |-> 0]

\* withRetry enters its loop: for (let attempt = 1; attempt <= opts.maxAttempts; ...)
RetryEnter ==
    /\ rPc = "start"
    /\ IF 1 <= Opts(rOpts).maxAttempts
          THEN /\ rPc' = "calling"
               /\ rAttempt' = 1
               /\ UNCHANGED rOutcome
          ELSE /\ rPc' = "thrown"
               /\ rOutcome' = [kind |-> "error", error |-> AfterLoop]
               /\ UNCHANGED rAttempt
    /\ UNCHANGED <<rOpts, rErrors, rOnRetry, rDelays>>
    /\ UNCHANGED <<storeVars, turnVars, sessionVars>>

\* return await fn(): fn is invoked and returns a value.
RetrySucceed ==
    /\ rPc = "calling"
    /\ rPc' = "returned"
    /\ rOutcome' = [kind |-> "value", error |-> Null]
    /\ UNCHANGED <<rOpts, rAttempt, rErrors, rOnRetry, rDelays>>
    /\ UNCHANGED <<storeVars, turnVars, sessionVars>>

\* return await fn(): fn is invoked and throws; the catch block runs up to the sleep.
RetryFail(value) ==
    /\ rPc = "calling"
    /\ LET opts == Opts(rOpts)
           thrown == [msg |-> value.msg, isError |-> value.isError,
                      by |-> "fn", attempt |-> rAttempt]
           err == ToError(thrown)
       IN /\ rErrors' = Append(rErrors, thrown)
          /\ IF rAttempt >= opts.maxAttempts \/ ~IsRetriableError(err, opts.retryCondition)
                THEN /\ rPc' = "thrown"
                     /\ rOutcome' = [kind |-> "error", error |-> err]
                     /\ UNCHANGED <<rOnRetry, rDelays>>
                ELSE \E delay \in CalculateDelay(rAttempt, opts) :
                        /\ rOnRetry' = Append(rOnRetry, <<rAttempt, err>>)
                        /\ IF opts.onRetry = "throws"
                              THEN /\ rPc' = "thrown"
                                   /\ rOutcome' =
                                        [kind |-> "error",
                                         error |-> [msg |-> MsgOnRetry, isError |-> TRUE,
                                                    by |-> "onRetry", attempt |-> rAttempt]]
                                   /\ UNCHANGED rDelays
                              ELSE /\ rPc' = "sleeping"
                                   /\ rDelays' = Append(rDelays, delay)
                                   /\ UNCHANGED rOutcome
    /\ UNCHANGED <<rOpts, rAttempt>>
    /\ UNCHANGED <<storeVars, turnVars, sessionVars>>

\* The sleep ends: attempt++ and the loop test.
RetryWake ==
    /\ rPc = "sleeping"
    /\ rAttempt' = rAttempt + 1
    /\ IF rAttempt + 1 <= Opts(rOpts).maxAttempts
          THEN rPc' = "calling" /\ UNCHANGED rOutcome
          ELSE rPc' = "thrown" /\ rOutcome' = [kind |-> "error", error |-> AfterLoop]
    /\ UNCHANGED <<rOpts, rErrors, rOnRetry, rDelays>>
    /\ UNCHANGED <<storeVars, turnVars, sessionVars>>

\* One call of withRetry, from its options to its outcome.
NextRetry ==
    \/ RetryEnter
    \/ RetrySucceed
    \/ \E v \in ThrownValues : RetryFail(v)
    \/ RetryWake

SpecRetry == InitRetry /\ [][NextRetry]_vars

\* ------------------------------------- rows of sessions and of messages
\* The codes of the SqliteError a violated constraint raises.
ConstraintPrimaryKey == "SQLITE_CONSTRAINT_PRIMARYKEY"
ConstraintForeignKey == "SQLITE_CONSTRAINT_FOREIGNKEY"

\* INSERT INTO sessions (id, user_id, created_at, updated_at, metadata)
SessionRow(id, userId, t, metadata) ==
    [id |-> id, userId |-> userId, createdAt |-> t, updatedAt |-> t,
     metadata |-> metadata]

\* INSERT OR REPLACE in the place of the INSERT: a second row takes over the id.
CreateSessionRowsReplacing(rows, id, userId, t, metadata) ==
    [error |-> Null,
     rows |-> {r \in rows : r.id # id} \cup {SessionRow(id, userId, t, metadata)}]

\* The createSession statement on the sessions table (id TEXT PRIMARY KEY): the
\* error it raises, and the rows it leaves.
CreateSessionRows(rows, id, userId, t, metadata) ==
    IF \E r \in rows : r.id = id
       THEN [error |-> ConstraintPrimaryKey, rows |-> rows]
       ELSE [error |-> Null, rows |-> rows \cup {SessionRow(id, userId, t, metadata)}]

\* SELECT ... FROM sessions WHERE id = ?, not null
SessionExists(rows, id) == \E r \in rows : r.id = id

\* A row of the messages table.
StoredMessage(id, sessionId, role, content, timestamp) ==
    [id |-> id, sessionId |-> sessionId, role |-> role, content |-> content,
     timestamp |-> timestamp]

\* The rows of msgs, kept in the order of their insertion, that satisfy
\* session_id = ?
RECURSIVE MessagesOf(_, _)
MessagesOf(msgs, sessionId) ==
    IF msgs = << >> THEN << >>
    ELSE IF Head(msgs).sessionId = sessionId
            THEN <<Head(msgs)>> \o MessagesOf(Tail(msgs), sessionId)
            ELSE MessagesOf(Tail(msgs), sessionId)

\* Insertion of row into rows sorted by timestamp, behind the rows of its timestamp.
RECURSIVE InsertByTimestamp(_, _)
InsertByTimestamp(rows, row) ==
    IF rows = << >> THEN <<row>>
    ELSE IF Head(rows).timestamp <= row.timestamp
            THEN <<Head(rows)>> \o InsertByTimestamp(Tail(rows), row)
            ELSE <<row>> \o rows

\* The entries of idx_messages_session(session_id, timestamp) for one session:
\* by timestamp, and for equal timestamps by rowid, the order of insertion.
RECURSIVE ByTimestamp(_)
ByTimestamp(rows) ==
    IF rows = << >> THEN << >>
    ELSE InsertByTimestamp(ByTimestamp(SubSeq(rows, 1, Len(rows) - 1)), rows[Len(rows)])

Reverse(s) == [i \in 1..Len(s) |-> s[Len(s) + 1 - i]]

\* A listing that leaves the WHERE session_id = ? out.
GetMessagesRowsAnySession(msgs, sessionId) == ByTimestamp(msgs)

\* ... WHERE session_id = ? ORDER BY timestamp ASC
GetMessagesRows(msgs, sessionId) == ByTimestamp(MessagesOf(msgs, sessionId))

\* ... WHERE session_id = ? ORDER BY timestamp DESC LIMIT ?
GetRecentMessagesRows(msgs, sessionId, n) ==
    Limit(Reverse(ByTimestamp(MessagesOf(msgs, sessionId))), n)

\* MemoryStore.getMessages(sessionId, limit): limit ? getRecentMessages : getMessages,
\* so that a limit of 0 is taken as no limit.
GetMessagesResult(msgs, sessionId, limit) ==
    IF limit # << >> /\ limit[1] # 0
       THEN GetRecentMessagesRows(msgs, sessionId, limit[1])
       ELSE GetMessagesRows(msgs, sessionId)

\* generateId(): an id no row of msgs carries.
GenerateMessageId(msgs) ==
    CHOOSE id \in 1..(Len(msgs) + 1) :
        /\ \A i \in 1..Len(msgs) : msgs[i].id # id
        /\ \A other \in 1..(id - 1) : \E i \in 1..Len(msgs) : msgs[i].id = other

\* The DELETE deleting no row.
DeleteMessagesRowsNone(msgs, sessionId) == msgs

\* DELETE FROM messages WHERE session_id = ?
RECURSIVE DeleteMessagesRows(_, _)
DeleteMessagesRows(msgs, sessionId) ==
    IF msgs = << >> THEN << >>
    ELSE IF Head(msgs).sessionId = sessionId
            THEN DeleteMessagesRows(Tail(msgs), sessionId)
            ELSE <<Head(msgs)>> \o DeleteMessagesRows(Tail(msgs), sessionId)

\* A buildConversationHistory that also put the saved facts into the system message.
BuildConversationHistoryWithFacts(systemPrompt, msgs, sessionId) ==
    [system |-> [prompt |-> systemPrompt.prompt,
                 context |-> IF memories = {} THEN << >> ELSE <<"facts">>],
     messages |-> GetMessagesRows(msgs, sessionId)]

\* buildConversationHistory(): the system prompt, then getMessages(sessionId).
BuildConversationHistory(systemPrompt, msgs, sessionId) ==
    [system |-> systemPrompt, messages |-> GetMessagesRows(msgs, sessionId)]

\* ---------------------------------------------------------- Agent.process
\* The runtime whose turns are followed: one Agent on its session.
TurnAgent == [sessionId |-> "s1", userId |-> "u1"]

\* Texts are sequences of words.  The user says a greeting or states a fact.
UserTexts == {<<"hello">>, <<"my", "name">>}
\* message.content || '' of a completion: no prose, or some prose.
ResponseContents == {<< >>, <<"sure">>}
\* The canned sentence that stands in for prose when only tools ran.
LeadIn == "I've used the available tools to help with your request:"

\* The tools of the registry, and the names a completion may ask for.
RegisteredTools == {"http_request"}
ToolNames == {"http_request", "nope"}
\* What the execute of a registered tool does when it is called: it resolves with
\* success, resolves with a failure, or throws.
ToolBehaviours == {"succeeds", "fails", "throws"}
\* A parameter holds the kind of the value JSON.parse gave it: "null", "string",
\* "number", "boolean", "object" or "array"; Absent is a key the object of the
\* parameters does not have.
Absent == "absent"
\* HttpRequestTool.getParameters()
HttpRequestParameters ==
    <<[name |-> "url", type |-> "string", required |-> TRUE],
      [name |-> "method", type |-> "string", required |-> FALSE],
      [name |-> "headers", type |-> "object", required |-> FALSE],
      [name |-> "body", type |-> "string", required |-> FALSE],
      [name |-> "timeout", type |-> "number", required |-> FALSE],
      [name |-> "maxResponseSize", type |-> "number", required |-> FALSE]>>
ParameterNames == {HttpRequestParameters[i].name : i \in 1..Len(HttpRequestParameters)}
\* toolCall.parameters, the value of JSON.parse(tc.function.arguments): an object
\* with the kind of value under each key, or something that is not an object.
ParamsOf(url, headers, timeout) ==
    [isObject |-> TRUE,
     fields |-> [n \in ParameterNames |->
                    CASE n = "url" -> url
                      [] n = "headers" -> headers
                      [] n = "timeout" -> timeout
                      [] OTHER -> Absent]]
NotAnObject == [isObject |-> FALSE, fields |-> [n \in ParameterNames |-> Absent]]
\* {url: '...'} and {}.
UrlOnly == ParamsOf("string", Absent, Absent)
NoUrl == ParamsOf(Absent, Absent, Absent)
\* The parameters of the calls of a turn: the two above; url null, a number;
\* headers an array, null; timeout a string; null in place of the object.
ToolParams ==
    {UrlOnly, NoUrl, ParamsOf("null", Absent, Absent), ParamsOf("number", Absent, Absent),
     ParamsOf("string", "array", Absent), ParamsOf("string", "null", Absent),
     ParamsOf("string", Absent, "string"), NotAnObject}
\* response.toolCalls: up to MaxToolCalls names.
ToolCallSeqs == UNION {[1..n -> ToolNames] : n \in 0..MaxToolCalls}
\* What llmClient.chat resolves with.
LLMResponses == [content : ResponseContents, toolCalls : ToolCallSeqs]
\* What llmClient.chat rejects with: HTTP 503 once the retries are spent, HTTP 401,
\* a response with no message in it.
ChatErrors == {"API error 503", "API error 401", "Invalid GLM response: no message"}
\* How a call of extractAndSaveMemory that reached llmClient.chat ends: the chat
\* rejects; the text is empty, NONE or out of the length window; the fact is saved;
\* addMemory throws.
ExtractionOutcomes == {"chatFails", "rejected", "saved", "storageFails"}

NoError == [msg |-> Null, by |-> Null]

\* A row of the messages table as addMessage inserts it.
MessageRow(id, role, content) ==
    [id |-> id, sessionId |-> TurnAgent.sessionId, role |-> role, content |-> content,
     timestamp |-> now]

\* typeof value
TypeOf(kind) == IF kind \in {"null", "array"} THEN "object" ELSE kind

\* AgentTool.validateType(value, expectedType); a number out of JSON.parse is
\* never NaN.
ValidateType(kind, expectedType) ==
    CASE expectedType = "string" -> TypeOf(kind) = "string"
      [] expectedType = "number" -> TypeOf(kind) = "number"
      [] expectedType = "boolean" -> TypeOf(kind) = "boolean"
      [] expectedType = "object" ->
            TypeOf(kind) = "object" /\ kind # "null" /\ kind # "array"
      [] expectedType = "array" -> kind = "array"
      [] OTHER -> TRUE

\* AgentTool.validateParams(params), for the parameters still to be looked at: the
\* first parameter that fails decides.
RECURSIVE ValidateParams(_, _)
ValidateParams(parameters, fields) ==
    IF parameters = << >> THEN [valid |-> TRUE, error |-> Null]
    ELSE LET param == Head(parameters)
             value == fields[param.name]
         IN IF param.required /\ value = Absent
               THEN [valid |-> FALSE,
                     error |-> "Missing required parameter: " \o param.name]
            ELSE IF value = Absent \/ value = "null"
               THEN IF ~param.required
                       THEN ValidateParams(Tail(parameters), fields)
                       ELSE [valid |-> FALSE,
                             error |-> "Parameter " \o param.name
                                          \o " cannot be null or undefined"]
            ELSE IF ~ValidateType(value, param.type)
               THEN [valid |-> FALSE,
                     error |-> "Parameter " \o param.name \o " must be of type "
                                  \o param.type \o ", got " \o TypeOf(value)]
            ELSE ValidateParams(Tail(parameters), fields)

\* What execute does once it is called; invoked says that it was.
Executing(behaviour) ==
    CASE behaviour = "succeeds" ->
            [thrown |-> FALSE, success |-> TRUE, data |-> "data", error |-> Null,
             invoked |-> TRUE]
      [] behaviour = "fails" ->
            [thrown |-> FALSE, success |-> FALSE, data |-> Null, error |-> "tool failed",
             invoked |-> TRUE]
      [] behaviour = "throws" ->
            [thrown |-> FALSE, success |-> FALSE, data |-> Null, error |-> "tool raised",
             invoked |-> TRUE]

\* An executeSafe that calls execute without validateParams.
ExecuteSafeUnvalidated(params, behaviour) == Executing(behaviour)

\* AgentTool.executeSafe: a ToolCallResult whatever the tool does.  The `in` of
\* validateParams throws a TypeError for parameters that are not an object, and
\* the catch of executeSafe turns it into a failure like any other.
ExecuteSafe(params, behaviour) ==
    IF ~params.isObject
       THEN [thrown |-> FALSE, success |-> FALSE, data |-> Null,
             error |-> "Cannot use 'in' operator to search for 'url' in null",
             invoked |-> FALSE]
       ELSE LET validation == ValidateParams(HttpRequestParameters, params.fields)
            IN IF ~validation.valid
                  THEN [thrown |-> FALSE, success |-> FALSE, data |-> Null,
                        error |-> validation.error, invoked |-> FALSE]
                  ELSE Executing(behaviour)

\* ToolRegistry.execute: throws for a name that is not registered.
Execute(name, params, behaviour) ==
    IF name \notin RegisteredTools
       THEN [thrown |-> TRUE, success |-> FALSE, data |-> Null, error |-> "Tool not found",
             invoked |-> FALSE]
       ELSE ExecuteSafe(params, behaviour)

\* The record handleToolCalls hands to memory.addToolCall: with the ToolCallResult
\* as its result on the try path, with no result on the catch path.
ToolCallRecord(name, params, executed) ==
    IF executed.thrown
       THEN [sessionId |-> TurnAgent.sessionId, toolName |-> name, parameters |-> params,
             hasResult |-> FALSE, success |-> FALSE, data |-> Null, error |-> Null]
       ELSE [sessionId |-> TurnAgent.sessionId, toolName |-> name, parameters |-> params,
             hasResult |-> TRUE, success |-> executed.success, data |-> executed.data,
             error |-> executed.error]

\* The entry handleToolCalls pushes onto results.
ToolResultEntry(name, executed) ==
    [toolName |-> name, success |-> (~executed.thrown /\ executed.success),
     result |-> executed.data, error |-> executed.error]

\* The line of the summary for one result.
SummaryLine(r) ==
    IF r.success THEN <<"Tool", r.toolName, "result:", r.result>>
                 ELSE <<"Tool", r.toolName, "failed:", r.error>>

RECURSIVE ToolSummarySuccessesOnly(_)
\* A summary that leaves the failed calls out.
ToolSummarySuccessesOnly(results) ==
    IF results = << >> THEN << >>
    ELSE (IF Head(results).success THEN SummaryLine(Head(results)) ELSE << >>)
            \o ToolSummarySuccessesOnly(Tail(results))

RECURSIVE ToolSummary(_)
\* toolSummary: a line for every result, in order.
ToolSummary(results) ==
    IF results = << >> THEN << >>
    ELSE SummaryLine(Head(results)) \o ToolSummary(Tail(results))

\* finalContent of handleToolCalls.
FinalContent(baseContent, results) ==
    IF baseContent = << >> /\ Len(results) > 0
       THEN <<LeadIn>> \o ToolSummary(results)
       ELSE baseContent \o ToolSummary(results)

\* skipPatterns of extractAndSaveMemory, each anchored at the start of the text.
Skipped(text) ==
    /\ text # << >>
    /\ \/ text[1] \in {"hello", "hi", "ok", LeadIn}
       \/ Len(text) >= 3 /\ text[1] = "Tool" /\ text[3] = "result:"

\* Step 5 of process: the assistant message is saved if finalResponse.content is
\* not empty.
PersistAssistant(msgs, content) ==
    IF content # << >>
       THEN Append(msgs, MessageRow(Len(msgs) + 1, "assistant", content))
       ELSE msgs

\* catch (error) { ...; throw error } of a rethrow that replaces the error.
RethrownAsGeneric(error) == [msg |-> "Error processing message", by |-> "process"]

\* catch (error) { logger.error(...); throw error }
Rethrown(error) == error

\* An extraction failure surfaced to the caller of the turn.
AfterExtractionSurfaced(outcome, extraction) ==
    IF extraction \in {"chatFails", "storageFails"}
       THEN [kind |-> "error", content |-> << >>,
             error |-> [msg |-> extraction, by |-> "extraction"]]
       ELSE outcome

\* What the caller of the turn holds once the extraction has ended: the try/catch
\* of extractAndSaveMemory and the .catch on its promise swallow every failure.
AfterExtraction(outcome, extraction) == outcome

\* process(userMessage) up to its first await: the user message is saved, the
\* history is built and llmClient.chat is called.
ProcessStart(text) ==
    /\ tPc = "ready"
    /\ tTurns < MaxTurns
    /\ tTurns' = tTurns + 1
    /\ tText' = text
    /\ tBefore' = [messages |-> messages, toolCalls |-> toolCalls]
    /\ messages' = Append(messages, MessageRow(Len(messages) + 1, "user", text))
    /\ tPc' = "chat"
    /\ tResponse' = NoResponse
    /\ tIndex' = 0
    /\ tResults' = << >>
    /\ tOutcome' = NoTurnOutcome
    /\ tHistory' = BuildConversationHistory(DefaultSystemPrompt, messages',
                                            TurnAgent.sessionId)
    /\ tAttempt' = 1
    /\ UNCHANGED <<toolCalls, tExtracting, tExtraction, tExtracted, tExecuted>>
    /\ UNCHANGED <<storeVars, retryVars, sessionVars>>

\* Steps 5 and 6 of process and its return: the assistant message, the call of
\* extractAndSaveMemory that is not awaited, the result.
Respond(content) ==
    /\ messages' = PersistAssistant(messages, content)
    /\ tExtracting' = IF Skipped(tText) \/ Skipped(content)
                         THEN tExtracting ELSE tExtracting + 1
    /\ tOutcome' = [kind |-> "value", content |-> content, error |-> NoError]
    /\ tPc' = "ready"

\* llmClient.chat resolves: with tool calls the dispatch starts, without them the
\* turn is answered.
ChatReturn(response) ==
    /\ tPc = "chat"
    /\ tResponse' = [kind |-> "value", content |-> response.content,
                     toolCalls |-> response.toolCalls, error |-> NoError]
    /\ IF Len(response.toolCalls) > 0
          THEN /\ tPc' = "tools"
               /\ tIndex' = 1
               /\ UNCHANGED <<messages, tExtracting, tOutcome>>
          ELSE /\ Respond(response.content)
               /\ UNCHANGED tIndex
    /\ UNCHANGED <<toolCalls, tTurns, tText, tBefore, tResults, tExtraction, tExtracted,
                   tHistory, tAttempt, tExecuted>>
    /\ UNCHANGED <<storeVars, retryVars, sessionVars>>

\* llmClient.chat rejects: process logs the error and throws it on.
ChatFail(msg) ==
    /\ tPc = "chat"
    /\ LET error == [msg |-> msg, by |-> "chat"]
       IN /\ tResponse' = [kind |-> "error", content |-> << >>,
                           toolCalls |-> << >>, error |-> error]
          /\ tOutcome' = [kind |-> "error", content |-> << >>, error |-> Rethrown(error)]
    /\ tPc' = "ready"
    /\ UNCHANGED <<messages, toolCalls, tTurns, tText, tBefore, tIndex, tResults,
                   tExtracting, tExtraction, tExtracted,
                   tHistory, tAttempt, tExecuted>>
    /\ UNCHANGED <<storeVars, retryVars, sessionVars>>

\* One pass of the loop of handleToolCalls: the call is dispatched, its record is
\* written and its result kept; after the last call the turn is answered.
ToolCall(params, behaviour) ==
    /\ tPc = "tools"
    /\ LET name == tResponse.toolCalls[tIndex]
           executed == Execute(name, params, behaviour)
           results == Append(tResults, ToolResultEntry(name, executed))
       IN /\ toolCalls' = Append(toolCalls, ToolCallRecord(name, params, executed))
          /\ tExecuted' = IF executed.invoked THEN Append(tExecuted, name) ELSE tExecuted
          /\ tResults' = results
          /\ IF tIndex < Len(tResponse.toolCalls)
                THEN /\ tIndex' = tIndex + 1
                     /\ UNCHANGED <<tPc, messages, tExtracting, tOutcome>>
                ELSE /\ Respond(FinalContent(tResponse.content, results))
                     /\ UNCHANGED tIndex
    /\ UNCHANGED <<tTurns, tText, tBefore, tResponse, tExtraction, tExtracted,
                   tHistory, tAttempt>>
    /\ UNCHANGED <<storeVars, retryVars, sessionVars>>

\* A text of n characters.
Chars(n) == [i \in 1..n |-> "x"]
NONE == <<"N", "O", "N", "E">>
\* llmResponse.content of the extraction: nothing, blanks, the sentinel bare and
\* padded, and texts at and around the ends of the length window.
ExtractedTexts ==
    {<< >>, <<" ">>, NONE, <<" ">> \o NONE \o <<" ">>, Chars(10), Chars(11),
     <<" ">> \o Chars(11), Chars(199), Chars(200)}
\* What the llmClient.chat of the extraction settles with.
ExtractionReplies ==
    {[failed |-> TRUE, text |-> << >>]}
        \cup {[failed |-> FALSE, text |-> t] : t \in ExtractedTexts}

RECURSIVE TrimStart(_)
TrimStart(text) ==
    IF text # << >> /\ Head(text) = " " THEN TrimStart(Tail(text)) ELSE text
RECURSIVE TrimEnd(_)
TrimEnd(text) ==
    IF text # << >> /\ text[Len(text)] = " "
       THEN TrimEnd(SubSeq(text, 1, Len(text) - 1)) ELSE text
\* String.prototype.trim
Trim(text) == TrimEnd(TrimStart(text))

\* extracted && extracted !== 'NONE' && extracted.length > 10 && extracted.length < 200
ShouldSave(extracted) ==
    /\ extracted # << >>
    /\ extracted # NONE
    /\ Len(extracted) > 10
    /\ Len(extracted) < 200

\* The importance addMemory gives when none is passed, and the one of an
\* extracted fact, in tenths.
DefaultImportance == 10
ExtractedImportance == 15

\* An extracted fact bound to the session instead of the user.
ExtractedFactSessionScoped(id, extracted, t) ==
    AddMemoryRow(id, extracted, TurnAgent.sessionId, ExtractedImportance, Null, t)

\* this.addMemory(extracted, 1.5, ['auto-extracted']): useUserId defaults to true,
\* so the row carries the userId of the Agent and no sessionId.
ExtractedFact(id, extracted, t) ==
    AddMemoryRow(id, extracted, Null, ExtractedImportance, TurnAgent.userId, t)

\* How a call of extractAndSaveMemory that reached llmClient.chat ends.
ExtractionOutcome(reply, storageFails) ==
    IF reply.failed THEN "chatFails"
    ELSE IF ~ShouldSave(Trim(reply.text)) THEN "rejected"
    ELSE IF storageFails THEN "storageFails"
    ELSE "saved"

\* A call of extractAndSaveMemory left awaiting llmClient.chat runs to its end.
ExtractionEnd(reply, storageFails) ==
    /\ tExtracting > 0
    /\ tExtracting' = tExtracting - 1
    /\ LET extraction == ExtractionOutcome(reply, storageFails)
           extracted == IF reply.failed THEN << >> ELSE Trim(reply.text)
       IN /\ extraction \in ExtractionOutcomes
          /\ tExtraction' = extraction
          /\ tExtracted' = extracted
          /\ IF extraction = "saved"
                THEN /\ nextId <= MaxFacts
                     /\ memories' = memories \cup {ExtractedFact(nextId, extracted, now)}
                     /\ nextId' = nextId + 1
                ELSE UNCHANGED <<memories, nextId>>
          /\ tOutcome' = AfterExtraction(tOutcome, extraction)
    /\ UNCHANGED <<now, expiryConfig, last>>
    /\ UNCHANGED <<messages, toolCalls, tPc, tTurns, tText, tBefore, tResponse, tIndex,
                   tResults, tHistory, tAttempt, tExecuted>>
    /\ UNCHANGED <<retryVars, sessionVars>>

\* The turns of one session and the extractions they leave behind.
NextTurn ==
    \/ \E text \in UserTexts : ProcessStart(text)
    \/ \E response \in LLMResponses : ChatReturn(response)
    \/ \E msg \in ChatErrors : ChatFail(msg)
    \/ \E params \in {UrlOnly, NoUrl}, behaviour \in ToolBehaviours :
          ToolCall(params, behaviour)
    \/ \E reply \in ExtractionReplies, storageFails \in BOOLEAN :
          ExtractionEnd(reply, storageFails)

SpecTurn == Init /\ [][NextTurn]_vars

\* maxAttempts of the withRetry around the fetch of a completion.
ChatMaxAttempts == 3

\* An attempt of the fetch inside llmClient.chat fails and withRetry, whose default
\* retryCondition accepts every error, makes the next one; nothing outside the
\* client is touched.
ChatRetry ==
    /\ tPc = "chat"
    /\ tAttempt < ChatMaxAttempts
    /\ tAttempt' = tAttempt + 1
    /\ UNCHANGED <<messages, toolCalls, tPc, tTurns, tText, tBefore, tResponse, tIndex,
                   tResults, tOutcome, tExtracting, tExtraction, tExtracted, tHistory,
                   tExecuted>>
    /\ UNCHANGED <<storeVars, retryVars, sessionVars>>

\* The turns of one session with the attempts of their completion calls: a fetch
\* that fails is retried until the attempts are spent, and only then the error of
\* the provider reaches the turn; a response without a message is refused by
\* parseGLMResponse after whichever attempt returned it.
NextChatRetry ==
    \/ \E text \in UserTexts : ProcessStart(text)
    \/ ChatRetry
    \/ \E response \in LLMResponses : ChatReturn(response)
    \/ \E msg \in ChatErrors :
          /\ msg # "Invalid GLM response: no message" => tAttempt = ChatMaxAttempts
          /\ ChatFail(msg)
    \/ \E behaviour \in ToolBehaviours : ToolCall(UrlOnly, behaviour)

SpecChatRetry == Init /\ [][NextChatRetry]_vars

\* One turn whose completion asks for tools, with parameters of every kind.
NextTools ==
    \/ \E text \in UserTexts : tTurns = 0 /\ ProcessStart(text)
    \/ \E response \in LLMResponses : ChatReturn(response)
    \/ \E params \in ToolParams, behaviour \in ToolBehaviours : ToolCall(params, behaviour)

SpecTools == Init /\ [][NextTools]_vars

\* ------------------------------------------------ sessions and messages
\* The session ids and user ids callers pass to the store.
SessionIds == {"s1", "s2"}
\* What createSession is called with besides the id: the user, and metadata or none.
SessionOwners == {[userId |-> "u1", metadata |-> "meta"],
                  [userId |-> "u2", metadata |-> Null]}
\* message.timestamp as the caller passes it: 0 for a missing one, or a time.
Timestamps == {0, 1, 2}
\* The limit of getMessages: << >> when the argument is left out, <<n>> for n.
MessageLimits == {<< >>, <<0>>, <<1>>, <<2>>}
\* The scope arguments of MemoryStore.addMemory: left out, or an id.
ScopeSessionIds == {Null, "s1"}
ScopeUserIds == {Null, "u1"}
\* The messages table holds at most MaxMessages rows.
MaxMessages == 3
\* The clock of the session and message operations runs from 0 to MaxSeconds.
MaxSeconds == 1

\* MemoryStore.createSession(sessionId, userId, metadata)
CreateSession(sessionId, userId, metadata) ==
    /\ LET done == CreateSessionRows(sessions, sessionId, userId, now, metadata)
       IN /\ sessions' = done.rows
          /\ sLast' = [NoSessionOp EXCEPT !.op = "createSession", !.sessionId = sessionId,
                                          !.userId = userId, !.error = done.error,
                                          !.at = now]
    /\ UNCHANGED <<agents, nextInstance, runs>>
    /\ UNCHANGED <<defaultRunner, storeOpen>>
    /\ UNCHANGED <<storeVars, retryVars, turnVars>>

\* MemoryStore.addMessage(message, sessionId): the row is inserted with the
\* timestamp of the message or, when it has none, the time in seconds; the foreign
\* key on session_id refuses a session that does not exist.
AddMessage(sessionId, role, content, timestamp) ==
    /\ Len(messages) < MaxMessages
    /\ IF SessionExists(sessions, sessionId)
          THEN /\ messages' = Append(messages,
                      StoredMessage(GenerateMessageId(messages), sessionId, role, content,
                                    IF timestamp # 0 THEN timestamp ELSE now))
               /\ sLast' = [NoSessionOp EXCEPT !.op = "addMessage",
                                               !.sessionId = sessionId, !.at = now]
          ELSE /\ UNCHANGED messages
               /\ sLast' = [NoSessionOp EXCEPT !.op = "addMessage",
                                               !.sessionId = sessionId, !.at = now,
                                               !.error = ConstraintForeignKey]
    /\ UNCHANGED <<sessions, agents, nextInstance, runs>>
    /\ UNCHANGED <<defaultRunner, storeOpen>>
    /\ UNCHANGED <<toolCalls, tPc, tTurns, tText, tBefore, tResponse, tIndex, tResults,
                   tOutcome, tExtracting, tExtraction, tExtracted,
                   tHistory, tAttempt, tExecuted>>
    /\ UNCHANGED <<storeVars, retryVars>>

\* MemoryStore.getMessages(sessionId, limit)
GetMessages(sessionId, limit) ==
    /\ sLast' = [NoSessionOp EXCEPT !.op = "getMessages", !.sessionId = sessionId,
                                    !.limit = limit, !.at = now,
                                    !.result = GetMessagesResult(messages, sessionId, limit)]
    /\ UNCHANGED <<sessions, agents, nextInstance, runs>>
    /\ UNCHANGED <<defaultRunner, storeOpen>>
    /\ UNCHANGED <<storeVars, retryVars, turnVars>>

\* MemoryStore.clearMessages(sessionId)
ClearMessages(sessionId) ==
    /\ messages' = DeleteMessagesRows(messages, sessionId)
    /\ sLast' = [NoSessionOp EXCEPT !.op = "clearMessages", !.sessionId = sessionId,
                                    !.at = now]
    /\ UNCHANGED <<sessions, agents, nextInstance, runs>>
    /\ UNCHANGED <<defaultRunner, storeOpen>>
    /\ UNCHANGED <<toolCalls, tPc, tTurns, tText, tBefore, tResponse, tIndex, tResults,
                   tOutcome, tExtracting, tExtraction, tExtracted,
                   tHistory, tAttempt, tExecuted>>
    /\ UNCHANGED <<storeVars, retryVars>>

\* MemoryStore.addMemory(content, sessionId, importance, tags, userId) called on the
\* store itself: session_id and user_id are written as passed, null when left out.
StoreAddMemory(content, sessionId, importance, userId) ==
    /\ nextId <= MaxFacts
    /\ memories' = memories \cup
           {AddMemoryRow(nextId, content, sessionId, importance, userId, now)}
    /\ nextId' = nextId + 1
    /\ last' = [NoOp EXCEPT !.op = "add"]
    /\ sLast' = NoSessionOp
    /\ UNCHANGED <<now, expiryConfig>>
    /\ UNCHANGED <<sessions, agents, nextInstance, runs>>
    /\ UNCHANGED <<defaultRunner, storeOpen>>
    /\ UNCHANGED <<retryVars, turnVars>>

\* A second passes between two calls of the store: Math.floor(Date.now() / 1000)
\* is one more.
StoreTick ==
    /\ now < MaxSeconds
    /\ now' = now + 1
    /\ sLast' = NoSessionOp
    /\ UNCHANGED <<memories, nextId, expiryConfig, last>>
    /\ UNCHANGED <<sessions, agents, nextInstance, runs>>
    /\ UNCHANGED <<defaultRunner, storeOpen>>
    /\ UNCHANGED <<retryVars, turnVars>>

\* MemoryStore.addToolCall(call): the row is inserted as passed; the foreign key
\* on session_id refuses a session that does not exist.
AddToolCall(sessionId, toolName, success) ==
    /\ Len(toolCalls) < MaxToolCalls
    /\ IF SessionExists(sessions, sessionId)
          THEN /\ toolCalls' = Append(toolCalls,
                      [sessionId |-> sessionId, toolName |-> toolName,
                       parameters |-> UrlOnly, hasResult |-> FALSE, success |-> success, data |-> Null,
                       error |-> Null])
               /\ sLast' = [NoSessionOp EXCEPT !.op = "addToolCall",
                                               !.sessionId = sessionId, !.at = now]
          ELSE /\ UNCHANGED toolCalls
               /\ sLast' = [NoSessionOp EXCEPT !.op = "addToolCall",
                                               !.sessionId = sessionId, !.at = now,
                                               !.error = ConstraintForeignKey]
    /\ UNCHANGED <<sessions, agents, nextInstance, runs>>
    /\ UNCHANGED <<defaultRunner, storeOpen>>
    /\ UNCHANGED <<messages, tPc, tTurns, tText, tBefore, tResponse, tIndex, tResults,
                   tOutcome, tExtracting, tExtraction, tExtracted,
                   tHistory, tAttempt, tExecuted>>
    /\ UNCHANGED <<storeVars, retryVars>>

\* The store under the session and message operations.
NextStore ==
    \/ \E sessionId \in SessionIds, owner \in SessionOwners :
          CreateSession(sessionId, owner.userId, owner.metadata)
    \/ \E sessionId \in SessionIds, timestamp \in Timestamps :
          AddMessage(sessionId, "user", <<"hello">>, timestamp)
    \/ \E sessionId \in SessionIds, limit \in MessageLimits : GetMessages(sessionId, limit)
    \/ \E sessionId \in SessionIds : ClearMessages(sessionId)
    \/ StoreTick

SpecStore == Init /\ [][NextStore]_vars

\* The facts of the store as written by the store's own addMemory and by the
\* addMemory of the runtimes.
NextFacts ==
    \/ \E sessionId \in ScopeSessionIds, userId \in ScopeUserIds :
          StoreAddMemory(<<"a">>, sessionId, DefaultImportance, userId)
    \/ \E a \in Agents, useUserId \in BOOLEAN :
          AddMemory(a, <<"a">>, DefaultImportance, useUserId)
    \/ \E id \in 1..MaxFacts : DeleteMemory(id)
    \/ StoreTick

SpecFacts == Init /\ [][NextFacts]_vars

\* The store with a session, a message and a tool call record in it, under
\* writes of facts of either scope and retention sweeps.
NextSweep ==
    \/ sessions = {} /\ CreateSession("s1", "u1", Null)
    \/ messages = << >> /\ AddMessage("s1", "user", <<"hello">>, 1)
    \/ toolCalls = << >> /\ AddToolCall("s1", "http_request", TRUE)
    \/ \E a \in Agents, b \in BOOLEAN : AddMemory(a, <<"a", "B">>, 1, b)
    \/ StoreAddMemory(<<"a", "B">>, "s1", 3, "u1")
    \/ \E target \in Users \cup {Null} : CleanupExpiredMemories(target)
    \/ Tick

SpecSweep == Init /\ [][NextSweep]_vars

\* ------------------------------------------------- the runner's agents
\* AgentRunner.run is called at most MaxRuns times.
MaxRuns == 2
\* options.sessionId of a run: left out, or an id.
SuppliedSessionIds == {Null, "s1"}
\* What generateId() returns to the runs, in the order of the runs.
GeneratedIds == <<"g1", "g2", "g3", "g4">>
\* The agents of the runner hold at most MaxRuntimeFacts facts.
MaxRuntimeFacts == 2
\* What Agent.addMemory is called with: a content at the default importance and
\* one at 2.5 for the user, and one bound to the session.
RuntimeFacts ==
    {[content |-> <<"e">>, importance |-> DefaultImportance, useUserId |-> TRUE],
     [content |-> <<"f">>, importance |-> 25, useUserId |-> TRUE],
     [content |-> <<"g">>, importance |-> 25, useUserId |-> FALSE]}
\* The slice of loadLongTermMemory, and the limit it reads the store with.
TopK == 5
LoadLimit == 20

\* Insertion of row behind the rows at least as important: a step of the stable
\* Array.prototype.sort under (a, b) => b.importance - a.importance.
RECURSIVE InsertByImportance(_, _)
InsertByImportance(rows, row) ==
    IF rows = << >> THEN <<row>>
    ELSE IF Head(rows).importance >= row.importance
            THEN <<Head(rows)>> \o InsertByImportance(Tail(rows), row)
            ELSE <<row>> \o rows

\* memories.sort((a, b) => b.importance - a.importance)
RECURSIVE SortByImportance(_)
SortByImportance(rows) ==
    IF rows = << >> THEN << >>
    ELSE InsertByImportance(SortByImportance(SubSeq(rows, 1, Len(rows) - 1)),
                            rows[Len(rows)])

\* The most important row alone: .slice(0, 1).
ImportantMemoriesTopOne(rows) == Limit(SortByImportance(rows), 1)

\* importantMemories: .sort(...).slice(0, 5)
ImportantMemories(rows) == Limit(SortByImportance(rows), TopK)

\* The system prompt loadLongTermMemory sets from the rows the store served: the
\* default prompt, and behind it the "User Context" block of the contents when
\* there is any row.
LoadedSystemPrompt(rows) ==
    IF Len(rows) > 0
       THEN [prompt |-> "default",
             context |-> [i \in 1..Len(ImportantMemories(rows)) |->
                             ImportantMemories(rows)[i].content]]
       ELSE DefaultSystemPrompt

\* options.systemPrompt || this.getDefaultSystemPrompt()
ConstructedSystemPrompt(systemPrompt) ==
    IF systemPrompt # Null /\ systemPrompt # ""
       THEN [prompt |-> systemPrompt, context |-> << >>]
       ELSE DefaultSystemPrompt

\* this.agents.get(sessionId) finding nothing, whatever the map holds.
AgentsGetNothing(entries, sessionId) == {}

\* this.agents.get(sessionId): the Agent under the key, if any.
AgentsGet(entries, sessionId) == {e \in entries : e.key = sessionId}

\* this.agents.set(sessionId, agent)
AgentsSet(entries, sessionId, agent) ==
    {e \in entries : e.key # sessionId} \cup {[agent EXCEPT !.key = sessionId]}

\* An Agent object, as the entry of the map it is stored in.
AgentEntry(instance, sessionId, userId, systemPrompt) ==
    [key |-> sessionId, instance |-> instance, sessionId |-> sessionId,
     userId |-> userId, systemPrompt |-> systemPrompt]

\* A call of AgentRunner.run that awaits agent.process.
RunRecord(supplied, sessionId, userId, systemPrompt, message, instance, history) ==
    [supplied |-> supplied, sessionId |-> sessionId, userId |-> userId,
     systemPrompt |-> systemPrompt, message |-> message, instance |-> instance,
     history |-> history, pc |-> "chat",
     result |-> [response |-> << >>, sessionId |-> Null]]

\* AgentRunner.run(options) up to the await inside agent.process: the session id
\* is the one supplied or a generated one; the Agent under it is fetched or, when
\* there is none, constructed and stored; a constructed Agent whose session is not
\* in the store creates it and loads the long-term memory of its user; the user
\* message is saved and the history built.  systemPrompt is options.systemPrompt,
\* Null when it is left out: the constructor takes it or, without one, the default
\* prompt, and loadLongTermMemory then sets the prompt anew.
RunStart(supplied, userId, systemPrompt, text) ==
    /\ Len(runs) < MaxRuns
    /\ storeOpen
    /\ LET sessionId == IF supplied # Null THEN supplied ELSE GeneratedIds[Len(runs) + 1]
           found == AgentsGet(agents, sessionId)
           isNew == ~SessionExists(sessions, sessionId)
       IN \E rows \in GetMemoriesByUserRows(memories, userId, LoadLimit) :
            LET loads == found = {} /\ isNew
                agent == IF found # {}
                            THEN CHOOSE e \in found : TRUE
                            ELSE AgentEntry(nextInstance, sessionId, userId,
                                            IF isNew THEN LoadedSystemPrompt(rows)
                                                     ELSE ConstructedSystemPrompt(systemPrompt))
                saved == Append(messages,
                                StoredMessage(GenerateMessageId(messages),
                                              agent.sessionId, "user", text, now))
            IN /\ loads => \A m \in Range(rows) : m.accessCount < MaxAccess
               /\ ~loads => rows = CHOOSE r \in GetMemoriesByUserRows(memories, userId,
                                                                      LoadLimit) : TRUE
               /\ memories' = IF loads
                                 THEN UpdateMemoryAccess(memories,
                                                         {m.id : m \in Range(rows)}, now)
                                 ELSE memories
               /\ sessions' = IF loads
                                 THEN CreateSessionRows(sessions, sessionId, userId, now,
                                                        Null).rows
                                 ELSE sessions
               /\ agents' = IF found = {} THEN AgentsSet(agents, sessionId, agent)
                                          ELSE agents
               /\ nextInstance' = IF found = {} THEN nextInstance + 1 ELSE nextInstance
               /\ messages' = saved
               /\ runs' = Append(runs,
                      RunRecord(supplied, sessionId, userId, systemPrompt, text,
                                agent.instance,
                                BuildConversationHistory(agent.systemPrompt, saved,
                                                         agent.sessionId)))
               /\ sLast' = [NoSessionOp EXCEPT !.op = "run", !.sessionId = sessionId,
                                               !.userId = userId, !.at = now]
    /\ UNCHANGED <<nextId, now, expiryConfig, last>>
    /\ UNCHANGED <<defaultRunner, storeOpen>>
    /\ UNCHANGED <<toolCalls, tPc, tTurns, tText, tBefore, tResponse, tIndex, tResults,
                   tOutcome, tExtracting, tExtraction, tExtracted,
                   tHistory, tAttempt, tExecuted>>
    /\ UNCHANGED retryVars

\* The completion of run i arrives without tool calls: the assistant message is
\* saved when it has content, and run resolves with the response and the session id.
RunEnd(i, content) ==
    /\ i \in 1..Len(runs)
    /\ runs[i].pc = "chat"
    /\ messages' = IF content # << >>
                      THEN Append(messages,
                                  StoredMessage(GenerateMessageId(messages),
                                                runs[i].sessionId, "assistant", content,
                                                now))
                      ELSE messages
    /\ runs' = [runs EXCEPT ![i].pc = "done",
                            ![i].result = [response |-> content,
                                           sessionId |-> runs[i].sessionId]]
    /\ sLast' = NoSessionOp
    /\ UNCHANGED <<sessions, agents, nextInstance>>
    /\ UNCHANGED <<defaultRunner, storeOpen>>
    /\ UNCHANGED <<toolCalls, tPc, tTurns, tText, tBefore, tResponse, tIndex, tResults,
                   tOutcome, tExtracting, tExtraction, tExtracted,
                   tHistory, tAttempt, tExecuted>>
    /\ UNCHANGED <<storeVars, retryVars>>

\* The completion of run i fails: process rethrows and run rejects.
RunFail(i) ==
    /\ i \in 1..Len(runs)
    /\ runs[i].pc = "chat"
    /\ runs' = [runs EXCEPT ![i].pc = "failed"]
    /\ sLast' = NoSessionOp
    /\ UNCHANGED <<sessions, agents, nextInstance>>
    /\ UNCHANGED <<defaultRunner, storeOpen>>
    /\ UNCHANGED <<storeVars, retryVars, turnVars>>

\* agent.addMemory(content, importance, tags, useUserId) on an Agent of the runner
RuntimeAddMemory(sessionId, fact) ==
    \E e \in AgentsGet(agents, sessionId) :
        /\ nextId <= MaxRuntimeFacts
        /\ memories' = memories \cup
              {AddMemoryRow(nextId, fact.content,
                            IF fact.useUserId THEN Null ELSE e.sessionId, fact.importance,
                            IF fact.useUserId THEN e.userId ELSE Null, now)}
        /\ nextId' = nextId + 1
        /\ last' = [NoOp EXCEPT !.op = "add"]
        /\ sLast' = NoSessionOp
        /\ UNCHANGED <<now, expiryConfig>>
        /\ UNCHANGED <<sessions, agents, nextInstance, runs>>
        /\ UNCHANGED <<defaultRunner, storeOpen>>
        /\ UNCHANGED <<retryVars, turnVars>>

\* agent.clearHistory() on an Agent of the runner: the messages of its session are
\* deleted and loadLongTermMemory sets the system prompt anew.
ClearHistory(sessionId) ==
    \E e \in AgentsGet(agents, sessionId) :
    \E rows \in GetMemoriesByUserRows(memories, e.userId, LoadLimit) :
        /\ \A m \in Range(rows) : m.accessCount < MaxAccess
        /\ messages' = DeleteMessagesRows(messages, e.sessionId)
        /\ memories' = UpdateMemoryAccess(memories, {m.id : m \in Range(rows)}, now)
        /\ agents' = AgentsSet(agents, sessionId,
                               [e EXCEPT !.systemPrompt = LoadedSystemPrompt(rows)])
        /\ sLast' = [NoSessionOp EXCEPT !.op = "clearHistory", !.sessionId = sessionId,
                                        !.userId = e.userId, !.at = now]
        /\ UNCHANGED <<nextId, now, expiryConfig, last>>
        /\ UNCHANGED <<sessions, nextInstance, runs>>
        /\ UNCHANGED <<defaultRunner, storeOpen>>
        /\ UNCHANGED <<toolCalls, tPc, tTurns, tText, tBefore, tResponse, tIndex,
                       tResults, tOutcome, tExtracting, tExtraction, tExtracted,
                   tHistory, tAttempt, tExecuted>>
        /\ UNCHANGED retryVars

\* The message of the TypeError better-sqlite3 throws on a closed database.
NotOpen == "The database connection is not open"

\* AgentRunner.run(options) on a runner whose store is closed and whose map has no
\* Agent under the session id: the constructor of the Agent calls
\* memory.sessionExists, the statement throws, and run rejects before an Agent is
\* stored or a message saved.
RunOnClosedStore(supplied, userId) ==
    /\ Len(runs) < MaxRuns
    /\ ~storeOpen
    /\ LET sessionId == IF supplied # Null THEN supplied ELSE GeneratedIds[Len(runs) + 1]
       IN /\ AgentsGet(agents, sessionId) = {}
          /\ sLast' = [NoSessionOp EXCEPT !.op = "run", !.sessionId = sessionId,
                                          !.userId = userId, !.at = now,
                                          !.error = NotOpen]
    /\ UNCHANGED <<sessions, agents, nextInstance, runs>>
    /\ UNCHANGED <<defaultRunner, storeOpen>>
    /\ UNCHANGED <<storeVars, retryVars, turnVars>>

\* createRunner(options): the AgentRunner is constructed, and its MemoryStore
\* opened, only when defaultRunner is null; otherwise the one made before is
\* returned as it is.
CreateRunner ==
    /\ IF defaultRunner = Null
          THEN /\ defaultRunner' = "runner"
               /\ storeOpen' = TRUE
          ELSE UNCHANGED <<defaultRunner, storeOpen>>
    /\ sLast' = [NoSessionOp EXCEPT !.op = "createRunner", !.at = now]
    /\ UNCHANGED <<sessions, agents, nextInstance, runs>>
    /\ UNCHANGED <<storeVars, retryVars, turnVars>>

\* AgentRunner.shutdown() on the runner createRunner returned: cleanup() clears the
\* map of agents and memory.close() closes the database.
Shutdown ==
    /\ defaultRunner # Null
    /\ agents' = {}
    /\ storeOpen' = FALSE
    /\ sLast' = [NoSessionOp EXCEPT !.op = "shutdown", !.at = now]
    /\ UNCHANGED <<sessions, nextInstance, runs, defaultRunner>>
    /\ UNCHANGED <<storeVars, retryVars, turnVars>>

\* agent.setSystemPrompt(prompt) on an Agent of the runner
SetSystemPrompt(sessionId, prompt) ==
    \E e \in AgentsGet(agents, sessionId) :
        /\ agents' = AgentsSet(agents, sessionId,
                               [e EXCEPT !.systemPrompt =
                                            [prompt |-> prompt, context |-> << >>]])
        /\ sLast' = [NoSessionOp EXCEPT !.op = "setSystemPrompt",
                                        !.sessionId = sessionId, !.userId = e.userId,
                                        !.at = now]
        /\ UNCHANGED <<sessions, nextInstance, runs>>
        /\ UNCHANGED <<defaultRunner, storeOpen>>
        /\ UNCHANGED <<storeVars, retryVars, turnVars>>

\* AgentRunner.removeAgent(sessionId)
RemoveAgent(sessionId) ==
    /\ AgentsGet(agents, sessionId) # {}
    /\ agents' = {e \in agents : e.key # sessionId}
    /\ sLast' = NoSessionOp
    /\ UNCHANGED <<sessions, nextInstance, runs>>
    /\ UNCHANGED <<defaultRunner, storeOpen>>
    /\ UNCHANGED <<storeVars, retryVars, turnVars>>

\* The session ids the runner has seen.
KnownSessionIds == {e.key : e \in agents} \cup {s.id : s \in sessions}

\* The runner under runs that may overlap, and the calls made on its agents.
NextRuntime ==
    \/ \E supplied \in SuppliedSessionIds, userId \in Users :
          RunStart(supplied, userId, Null, <<"hello">>)
    \/ \E i \in 1..MaxRuns : RunEnd(i, <<"sure">>)
    \/ \E i \in 1..MaxRuns : RunFail(i)
    \/ \E sessionId \in KnownSessionIds, fact \in RuntimeFacts :
          RuntimeAddMemory(sessionId, fact)
    \/ \E sessionId \in KnownSessionIds : ClearHistory(sessionId)
    \/ \E sessionId \in KnownSessionIds : RemoveAgent(sessionId)

SpecRuntime == Init /\ [][NextRuntime]_vars

\* The runner under runs on the same session and on others that may overlap,
\* while the clock moves on.
NextOverlap ==
    \/ \E supplied \in SuppliedSessionIds, userId \in Users, text \in UserTexts :
          RunStart(supplied, userId, Null, text)
    \/ \E i \in 1..MaxRuns, content \in ResponseContents : RunEnd(i, content)
    \/ \E i \in 1..MaxRuns : RunFail(i)
    \/ StoreTick

SpecOverlap == Init /\ [][NextOverlap]_vars

\* The default runner of the module from createRunner to shutdown and after: runs
\* are made on the runner createRunner returned; a run that is in flight when the
\* store is closed can end only if it has nothing to save.
NextLifecycle ==
    \/ CreateRunner
    \/ Shutdown
    \/ \E supplied \in SuppliedSessionIds, userId \in Users :
          defaultRunner # Null /\ RunStart(supplied, userId, Null, <<"hello">>)
    \/ \E supplied \in SuppliedSessionIds, userId \in Users :
          defaultRunner # Null /\ RunOnClosedStore(supplied, userId)
    \/ \E i \in 1..MaxRuns, content \in ResponseContents :
          (storeOpen \/ content = << >>) /\ RunEnd(i, content)
    \/ \E i \in 1..MaxRuns : RunFail(i)

SpecLifecycle == Init /\ [][NextLifecycle]_vars

\* The system prompts a caller supplies: none, or one of its own.
SuppliedPrompts == {Null, "custom"}

\* The runner under runs of one user that may bring a system prompt, and the calls
\* that set and reset the prompt of its agents.
NextPrompt ==
    \/ \E supplied \in SuppliedSessionIds, systemPrompt \in SuppliedPrompts :
          RunStart(supplied, "u1", systemPrompt, <<"hello">>)
    \/ \E i \in 1..MaxRuns : RunEnd(i, <<"sure">>)
    \/ \E sessionId \in KnownSessionIds : SetSystemPrompt(sessionId, "custom")
    \/ \E sessionId \in KnownSessionIds, fact \in RuntimeFacts :
          fact.useUserId /\ memories = {} /\ RuntimeAddMemory(sessionId, fact)
    \/ \E sessionId \in KnownSessionIds : ClearHistory(sessionId)
    \/ \E sessionId \in KnownSessionIds : RemoveAgent(sessionId)

SpecPrompt == Init /\ [][NextPrompt]_vars

\* ----------------------------------------------------- retention sweep
\* A sweep has just completed (Tick and every other operation reset last.op).
Swept == last.op = "sweep" /\ expiryConfig.enabled
\* The users a completed sweep covered: all of them, or its target.
Covered(u) == last.user = Null \/ last.user = u
\* The rows of u the capacity pass of the sweep counted.
Recounted(u) == RowsOfUser(memories \cup last.capDeleted, u)
MaxAgeTimestamp == now - expiryConfig.maxAgeDays * DaySeconds
OldAndMinor(m) ==
    m.createdAt < MaxAgeTimestamp /\ m.importance < expiryConfig.minImportance

\* C1: after a sweep with enabled = true, every swept user holds at most
\* maxMemoriesPerUser user-scoped facts.
C1_SweepCapsEveryUser ==
    Swept => \A u \in Users :
        Covered(u) =>
            Cardinality(RowsOfUser(memories, u)) <= expiryConfig.maxMemoriesPerUser

\* A sweep whose capacity pass deleted a surplus and left a user exactly at the cap.
C1_Witness ==
    /\ Swept
    /\ \E e \in last.capDeleted :
          Cardinality(RowsOfUser(memories, e.userId)) = expiryConfig.maxMemoriesPerUser

\* C2: after a sweep with enabled = true, no surviving fact of a swept user is both
\* older than maxAgeDays and below minImportance.
C2_NoOldMinorSurvivor ==
    Swept => \A m \in memories :
        (m.userId # Null /\ Covered(m.userId)) => ~OldAndMinor(m)

\* A sweep whose age pass deleted a fact of a user while an equally old fact of
\* that user stayed.
C2_Witness ==
    /\ Swept
    /\ \E d \in last.ageDeleted : \E m \in RowsOfUser(memories, d.userId) :
          m.createdAt = d.createdAt

\* C3: the age pass deletes only facts below minImportance; a fact at or above
\* minImportance of a user whose recount is within maxMemoriesPerUser survives the
\* sweep however old it is, and an old fact below minImportance does not.
C3_ImportantExemptFromAge ==
    Swept =>
        /\ \A d \in last.ageDeleted : d.importance < expiryConfig.minImportance
        /\ \A u \in Users :
              Cardinality(Recounted(u)) <= expiryConfig.maxMemoriesPerUser =>
                  \A m \in Recounted(u) \cup RowsOfUser(last.ageDeleted, u) :
                      m.importance >= expiryConfig.minImportance => m \in memories
        /\ \A m \in memories \cup last.ageDeleted \cup last.capDeleted :
              (m.userId # Null /\ Covered(m.userId) /\ OldAndMinor(m)) => m \notin memories

\* A sweep that deleted an old minor fact of a user and kept an equally old fact
\* at or above minImportance of the same user, the recount being within the cap.
C3_Witness ==
    /\ Swept
    /\ \E d \in last.ageDeleted : \E m \in RowsOfUser(memories, d.userId) :
          /\ m.createdAt = d.createdAt
          /\ m.createdAt < MaxAgeTimestamp
          /\ m.importance >= expiryConfig.minImportance
          /\ Cardinality(Recounted(d.userId)) <= expiryConfig.maxMemoriesPerUser

\* (importance, accessedAt) of e is at most that of s, lexicographically.
KeyAtMost(e, s) ==
    \/ e.importance < s.importance
    \/ e.importance = s.importance /\ e.accessedAt <= s.accessedAt

\* Seven fresh facts of one user with importances 1.0 .. 7.0, and a policy with
\* maxMemoriesPerUser = 5.
SevenFacts == {AddMemoryRow(i, <<"a">>, Null, 10 * i, "u1", 0) : i \in 1..7}
CapFive == [enabled |-> TRUE, maxMemoriesPerUser |-> 5, maxAgeDays |-> 90, minImportance |-> 3]
SevenFactsSurvivors ==
    {LET gone == SweepUser(SevenFacts, "u1", CapFive, 0, ord)
     IN {m.importance : m \in (SevenFacts \ gone.aged) \ gone.excess} :
        ord \in OrderedBy(SevenFacts, "ASC")}

\* C4: every fact the capacity pass evicts has an (importance, accessedAt) at most
\* that of every surviving fact of its user; of seven fresh facts with importances
\* 1..7 under a cap of 5 exactly those with importances 3..7 survive.
C4_VictimsAreLeastImportant ==
    /\ Swept => \A e \in last.capDeleted : \A s \in RowsOfUser(memories, e.userId) :
                    KeyAtMost(e, s)
    /\ SevenFactsSurvivors = {{30, 40, 50, 60, 70}}

\* A sweep that evicted a fact more important than a survivor of the same user
\* is impossible; one that evicted a less recently read fact of equal importance,
\* or a less important one, is the case.
C4_Witness ==
    /\ Swept
    /\ \E e \in last.capDeleted : \E s \in RowsOfUser(memories, e.userId) :
          \/ e.importance < s.importance /\ e.accessedAt > s.accessedAt
          \/ e.importance = s.importance /\ e.accessedAt < s.accessedAt

\* (importance, accessedAt, id) of e is below that of s, lexicographically.
TotalKeyBelow(e, s) ==
    \/ e.importance < s.importance
    \/ e.importance = s.importance /\ e.accessedAt < s.accessedAt
    \/ e.importance = s.importance /\ e.accessedAt = s.accessedAt /\ e.id < s.id

\* C5: the victims of the capacity pass are fixed by the store's contents, ties on
\* (importance, accessedAt) being broken by id: every evicted fact is below every
\* survivor of its user in the total order (importance, accessedAt, id).
C5_TiesBrokenById ==
    Swept => \A e \in last.capDeleted : \A s \in RowsOfUser(memories, e.userId) :
        TotalKeyBelow(e, s)

\* ------------------------------------------------------ searches and reads
\* C6: a search returns a user-scoped fact only to a caller of that user, and a
\* session-scoped fact only to a caller within that session.
C6_SearchStaysInScope ==
    last.op = "search" => \A i \in 1..Len(last.result) :
        /\ last.result[i].userId # Null => last.result[i].userId = last.user
        /\ last.result[i].sessionId # Null => last.result[i].sessionId = last.key

\* Fact A (importance 1.0, accessedAt t1) and fact B (importance 2.0, accessedAt t0 < t1).
FactA == [AddMemoryRow(1, <<"a">>, Null, 10, "u1", 0) EXCEPT !.accessedAt = DaySeconds]
FactB == AddMemoryRow(2, <<"a">>, Null, 20, "u1", 0)

\* C7: the results of a search are ordered by importance descending, then
\* accessedAt descending; the facts A and B searched with an empty query come
\* back as [B, A].
C7_SearchOrdered ==
    /\ last.op = "search" => \A i \in 1..(Len(last.result) - 1) :
          LET a == last.result[i]
              b == last.result[i + 1]
          IN \/ a.importance > b.importance
             \/ a.importance = b.importance /\ a.accessedAt >= b.accessedAt
    /\ SearchMemoriesRows({FactA, FactB}, << >>, "u1", 10) = {<<FactB, FactA>>}

\* A search that returned a more important fact before a more recently accessed one.
C7_Witness ==
    /\ last.op = "search"
    /\ Len(last.result) >= 2
    /\ last.result[1].importance > last.result[2].importance
    /\ last.result[1].accessedAt < last.result[2].accessedAt

\* C8: every fact a search or a listing by user returns has had its accessCount
\* incremented by one and its accessedAt set to the time of the read.
C8_ReadsRecordAccess ==
    last.op \in {"search", "list"} => \A i \in 1..Len(last.result) :
        \E m \in memories :
            /\ m.id = last.result[i].id
            /\ m.accessCount = last.result[i].accessCount + 1
            /\ m.accessedAt = now

\* ---------------------------------------------------------------- retries
\* The call has ended by throwing, every invocation of fn having failed with an
\* error the policy in force retries.
AlwaysFailedRetryable ==
    /\ rPc = "thrown"
    /\ Opts(rOpts).maxAttempts >= 1
    /\ \A i \in 1..Len(rErrors) :
          IsRetriableError(ToError(rErrors[i]), Opts(rOpts).retryCondition)

\* The error thrown to the caller is the one invocation n of fn raised.
ThrownIsErrorOf(n) ==
    /\ rOutcome.kind = "error"
    /\ rOutcome.error.by \in {"fn", "wrapped"}
    /\ rOutcome.error.attempt = n
    /\ rOutcome.error.msg = rErrors[n].msg

\* C9: a call with maxAttempts = N >= 1 on an operation that always fails with a
\* retryable error invokes it exactly N times and throws the error of invocation N.
C9_ExhaustionThrowsLastError ==
    AlwaysFailedRetryable =>
        /\ Len(rErrors) = Opts(rOpts).maxAttempts
        /\ ThrownIsErrorOf(Opts(rOpts).maxAttempts)

\* The same, for the calls whose onRetry callback returns normally.
ExhaustionWhenOnRetryReturns ==
    (AlwaysFailedRetryable /\ Opts(rOpts).onRetry = "returns") =>
        /\ Len(rErrors) = Opts(rOpts).maxAttempts
        /\ ThrownIsErrorOf(Opts(rOpts).maxAttempts)

\* The failures the default classification retries: network-class, HTTP 5xx, HTTP 429.
TransientMessage(msg) == msg \in {MsgReset, Msg503, Msg429}

\* C10: with no retryCondition supplied, a failure that is neither network-class nor
\* HTTP 5xx nor HTTP 429 ends the call at once: it is the first and only invocation,
\* its error is thrown, and nothing was slept or reported to onRetry.
C10_DefaultFatalNotRetried ==
    rOpts.retryCondition = Null =>
        \A i \in 1..Len(rErrors) :
            ~TransientMessage(rErrors[i].msg) =>
                /\ i = 1
                /\ Len(rErrors) = 1
                /\ rPc = "thrown"
                /\ ThrownIsErrorOf(1)
                /\ rDelays = << >>
                /\ rOnRetry = << >>

\* Attempt i failed with attempts left, and withRetry went on to retry it: it
\* reported the failure to onRetry on its way to the sleep.
Retried(i) == Len(rOnRetry) >= i

\* C11: with a retryCondition supplied, a failed attempt that leaves attempts is
\* retried if and only if the retryCondition answers true for its error, whatever
\* the default classification makes of that error.
C11_CustomPredicateReplacesDefault ==
    rOpts.retryCondition # Null =>
        \A i \in 1..Len(rErrors) :
            i < Opts(rOpts).maxAttempts =>
                (Retried(i) <=> Holds(rOpts.retryCondition, ToError(rErrors[i])))

\* min(maxDelay, initialDelay * backoffMultiplier^(n-1))
CappedDelay(n, opts) == Min(opts.maxDelay, opts.initialDelay * Pow(opts.backoffMultiplier, n - 1))

\* The policy of the example: initialDelay=100, backoffMultiplier=2, maxDelay=1000, no jitter.
ExamplePolicy ==
    [maxAttempts |-> 4, initialDelay |-> 100, maxDelay |-> 1000, backoffMultiplier |-> 2,
     jitter |-> FALSE, retryCondition |-> "always", onRetry |-> "returns"]

\* C12: the delay slept after attempt n is min(maxDelay, initialDelay *
\* backoffMultiplier^(n-1)) with jitter off, and within 10% of that capped value
\* with jitter on; the example policy sleeps exactly 100, 200, 400.
C12_DelayIsCappedBackoff ==
    /\ \A n \in 1..Len(rDelays) :
          LET base == CappedDelay(n, Opts(rOpts))
          IN IF Opts(rOpts).jitter
                THEN /\ 10 * (base - rDelays[n]) <= base
                     /\ 10 * (rDelays[n] - base) <= base
                ELSE rDelays[n] = base
    /\ <<CalculateDelay(1, ExamplePolicy), CalculateDelay(2, ExamplePolicy),
         CalculateDelay(3, ExamplePolicy)>> = <<{100}, {200}, {400}>>

\* A jittered second delay that ends above maxDelay: the cap came first.
C12_Witness ==
    /\ rOpts.jitter
    /\ Len(rDelays) = 2
    /\ rDelays[1] < 100
    /\ rDelays[2] > rOpts.maxDelay

\* The call of withRetry has ended, by a return or a throw.
RetryEnded == rPc \in {"returned", "thrown"}

\* The number of times fn was invoked.
Invocations == Len(rErrors) + (IF rPc = "returned" THEN 1 ELSE 0)

\* C13: in a call that invoked fn at least once and has ended, onRetry was called
\* once for each failed attempt that another attempt followed, with that attempt's
\* number and error: one call fewer than the invocations of fn.
C13_OnRetryOncePerRetry ==
    (RetryEnded /\ Invocations >= 1) =>
        /\ Len(rOnRetry) = Invocations - 1
        /\ \A i \in 1..Len(rOnRetry) : rOnRetry[i] = <<i, ToError(rErrors[i])>>

\* The same, for the calls whose onRetry callback returns normally.
OnRetryOncePerRetryWhenItReturns ==
    (RetryEnded /\ Invocations >= 1 /\ Opts(rOpts).onRetry = "returns") =>
        /\ Len(rOnRetry) = Invocations - 1
        /\ \A i \in 1..Len(rOnRetry) : rOnRetry[i] = <<i, ToError(rErrors[i])>>

\* C14: an onRetry callback that throws leaves the control flow alone: the call
\* ends with a value or an error of fn, never with the error of the callback, and
\* a throw ends it only at the last attempt or on an error that is not retried.
C14_OnRetryFailureIgnored ==
    rPc = "thrown" /\ Opts(rOpts).maxAttempts >= 1 =>
        /\ rOutcome.error.by # "onRetry"
        /\ \/ Len(rErrors) = Opts(rOpts).maxAttempts
           \/ ~IsRetriableError(ToError(rErrors[Len(rErrors)]), Opts(rOpts).retryCondition)

\* ------------------------------------------------------------------ turns
\* The call of process has ended, by a return or a throw.
TurnEnded == tPc = "ready" /\ tOutcome.kind # "none"

\* The rows the turn has added to the messages and tool_calls tables.
TurnMessages == SubSeq(messages, Len(tBefore.messages) + 1, Len(messages))
TurnRecords == SubSeq(toolCalls, Len(tBefore.toolCalls) + 1, Len(toolCalls))

AssistantMessages(msgs) == SelectSeq(msgs, LAMBDA m : m.role = "assistant")

\* C15: when the completion call of a turn fails, the turn saves no assistant
\* message and throws the error of the provider to its caller.
C15_ChatFailureIsFatal ==
    (TurnEnded /\ tResponse.kind = "error") =>
        /\ AssistantMessages(TurnMessages) = << >>
        /\ tOutcome.kind = "error"
        /\ tOutcome.error = tResponse.error

\* A second turn whose completion failed with HTTP 503 after the retries.
C15_Witness ==
    /\ TurnEnded
    /\ tTurns = 2
    /\ tResponse.kind = "error"
    /\ tResponse.error.msg = "API error 503"
    /\ tOutcome.kind = "error"

\* C16: a turn that ends with an error leaves the messages of the session as it
\* found them.
C16_FailedTurnPersistsNothing ==
    (TurnEnded /\ tOutcome.kind = "error") => messages = tBefore.messages

\* The position of the summary line of call i, of k, in a content.
LineOf(content, i, k) ==
    SubSeq(content, Len(content) - 4 * (k - i + 1) + 1, Len(content) - 4 * (k - i))

\* C17: a turn whose completion asks for k tool calls dispatches every one of them,
\* writes exactly one record for each, and returns a result whose content carries
\* the outcome of every call, whichever of them fail or raise.
C17_ToolCallsIsolated ==
    (TurnEnded /\ tResponse.kind = "value" /\ Len(tResponse.toolCalls) > 0) =>
        LET k == Len(tResponse.toolCalls)
        IN /\ tOutcome.kind = "value"
           /\ Len(tResults) = k
           /\ Len(TurnRecords) = k
           /\ Len(tOutcome.content) >= 4 * k
           /\ \A i \in 1..k :
                 /\ tResults[i].toolName = tResponse.toolCalls[i]
                 /\ TurnRecords[i].toolName = tResponse.toolCalls[i]
                 /\ TurnRecords[i].success = tResults[i].success
                 /\ LineOf(tOutcome.content, i, k) = SummaryLine(tResults[i])

\* A turn of two calls, the first raising inside the tool, the second succeeding.
C17_Witness ==
    /\ TurnEnded
    /\ tOutcome.kind = "value"
    /\ Len(tResults) = 2
    /\ tResults[1].error = "tool raised"
    /\ tResults[2].success

\* C18: the record of a tool call that failed, by returning a failure, by raising
\* or by not being dispatched, has success = false and an error that is not empty.
C18_FailedRecordCarriesError ==
    /\ Len(TurnRecords) = Len(tResults)
    /\ \A i \in 1..Len(tResults) :
          ~tResults[i].success =>
              /\ ~TurnRecords[i].success
              /\ TurnRecords[i].error # Null

\* C19: a turn that returns has saved exactly one assistant message, whose content
\* is the content returned and is not empty.
C19_OneAssistantMessagePerTurn ==
    (TurnEnded /\ tOutcome.kind = "value") =>
        /\ Len(AssistantMessages(TurnMessages)) = 1
        /\ AssistantMessages(TurnMessages)[1].content = tOutcome.content
        /\ tOutcome.content # << >>

\* C20: process returns in the step that starts the extraction, leaving it under
\* way, and the end of an extraction, whatever it is, changes neither the result
\* the caller holds nor the messages, and never becomes an error of the turn.
C20_ExtractionNeverSurfaces ==
    [][/\ (tPc # "ready" /\ tPc' = "ready" /\ tOutcome'.kind = "value"
              /\ ~Skipped(tText) /\ ~Skipped(tOutcome'.content))
          => tExtracting' = tExtracting + 1
       /\ tExtracting' < tExtracting
          => /\ tOutcome' = tOutcome
             /\ messages' = messages
             /\ tPc' = tPc]_vars

\* A turn has returned and an extraction it left behind has since failed.
C20_Witness ==
    /\ TurnEnded
    /\ tOutcome.kind = "value"
    /\ tExtraction \in {"chatFails", "storageFails"}

\* The text passes the test of the extraction: not empty, not the sentinel, longer
\* than 10 characters and shorter than 200.
Acceptable(text) == text # << >> /\ text # NONE /\ Len(text) > 10 /\ Len(text) < 200

AlreadyExists == ConstraintPrimaryKey

\* C24: a createSession for an id that a session of another user holds fails with
\* the AlreadyExists error and leaves the stored session as it was: its userId,
\* createdAt and metadata, and no second row under the id.
C24_ConflictingCreateFails ==
    [][\A r \in sessions :
          (sLast'.op = "createSession" /\ sLast'.sessionId = r.id
              /\ sLast'.userId # r.userId)
          => /\ sLast'.error = AlreadyExists
             /\ \A r2 \in sessions' : r2.id = r.id => r2 = r
             /\ r \in sessions']_vars

\* A createSession has failed a second after a session of the other user,
\* with metadata, was stored under its id.
C24_Witness ==
    /\ sLast.op = "createSession"
    /\ sLast.error = AlreadyExists
    /\ \E r \in sessions :
          /\ r.id = sLast.sessionId
          /\ r.userId # sLast.userId
          /\ r.metadata = "meta"
          /\ r.createdAt < sLast.at

\* C25: after a successful addMessage the updatedAt of the session is at least the
\* time of that append.
C25_AppendBumpsUpdatedAt ==
    (sLast.op = "addMessage" /\ sLast.error = Null)
    => \A r \in sessions : r.id = sLast.sessionId => r.updatedAt >= sLast.at

\* The messages listed are rows of the session, each once.
ListsOnly(result, rows) ==
    /\ \A i \in 1..Len(result) : result[i] \in rows
    /\ \A i \in 1..Len(result) : \A j \in 1..Len(result) :
          result[i] = result[j] => i = j

\* C26: getMessages without a limit returns all messages of the session
\* oldest-first; with a limit n it returns the n most recent ones newest-first; no
\* message of another session is returned.
C26_ListingFollowsLimit ==
    sLast.op = "getMessages"
    => LET rows == {m \in Range(messages) : m.sessionId = sLast.sessionId}
           result == sLast.result
       IN /\ ListsOnly(result, rows)
          /\ IF sLast.limit = << >>
                THEN /\ Len(result) = Cardinality(rows)
                     /\ \A i \in 1..Len(result) : \A j \in i..Len(result) :
                           result[i].timestamp <= result[j].timestamp
                ELSE /\ Len(result) = Min(sLast.limit[1], Cardinality(rows))
                     /\ \A i \in 1..Len(result) : \A j \in i..Len(result) :
                           result[i].timestamp >= result[j].timestamp
                     /\ \A m \in rows \ Range(result) : \A i \in 1..Len(result) :
                           m.timestamp <= result[i].timestamp

\* C27: the timestamps of the messages of a session never decrease in the order of
\* their insertion, and getMessages without a limit returns them in exactly that
\* order.
C27_MessagesInInsertionOrder ==
    /\ \A i \in 1..Len(messages) : \A j \in i..Len(messages) :
          messages[i].sessionId = messages[j].sessionId
          => messages[i].timestamp <= messages[j].timestamp
    /\ (sLast.op = "getMessages" /\ sLast.limit = << >>)
       => sLast.result = MessagesOf(messages, sLast.sessionId)

\* C30: every stored fact has exactly one of sessionId and userId.
C30_ExactlyOneScope ==
    \A m \in memories : (m.sessionId = Null) # (m.userId = Null)

\* C28: a sweep returns the count of the facts it deleted.
C28_SweepReturnsCounts ==
    last.op = "sweep"
    => last.returned = <<Cardinality(last.ageDeleted) + Cardinality(last.capDeleted)>>

\* ------------------------------------------------- the runner's agents
\* The run a step has just started, if it started one.
Started(before, after) == Len(after) > Len(before)
Latest(rs) == rs[Len(rs)]

\* context lists the contents of the K most important facts of owner in mem, the
\* most important first: all of them when there are fewer than K.
IsTopRanked(context, mem, owner, K) ==
    \E ord \in SeqsOf({m \in mem : m.userId = owner}) :
        /\ \A i \in 1..Len(ord) : \A j \in i..Len(ord) :
              ord[i].importance >= ord[j].importance
        /\ Len(context) = Min(K, Len(ord))
        /\ \A i \in 1..Len(context) : context[i] = ord[i].content

\* Seven facts of "u1" whose contents have 1 .. 7 characters and whose importances
\* are 1.0 .. 7.0, and a more important fact of "u2".
SevenUserFacts ==
    {AddMemoryRow(i, Chars(i), Null, 10 * i, "u1", 0) : i \in 1..7}
        \cup {AddMemoryRow(8, Chars(8), Null, 90, "u2", 0)}
\* The contexts an Agent of "u1" may load from them.
SevenUserFactsContexts ==
    {LoadedSystemPrompt(rows).context :
        rows \in GetMemoriesByUserRows(SevenUserFacts, "u1", LoadLimit)}

FactOf(m) == [id |-> m.id, sessionId |-> m.sessionId, userId |-> m.userId,
              content |-> m.content, importance |-> m.importance,
              createdAt |-> m.createdAt]

C29_OneAgentPerSession ==
    [][/\ \A e1 \in agents' : \A e2 \in agents' : e1.key = e2.key => e1 = e2
       /\ \A e \in agents' : e.sessionId = e.key
       /\ Started(runs, runs')
          => LET r == Latest(runs')
                 found == {e \in agents : e.key = r.sessionId}
             IN /\ IF r.supplied # Null
                      THEN r.sessionId = r.supplied
                      ELSE /\ r.sessionId \notin KnownSessionIds \cup SuppliedSessionIds
                           /\ \A i \in 1..Len(runs) : runs[i].sessionId # r.sessionId
                /\ IF found # {}
                      THEN /\ agents' = agents
                           /\ \A e \in found : r.instance = e.instance
                      ELSE /\ \E e \in agents' :
                                 e.key = r.sessionId /\ e.instance = r.instance
                           /\ \A e \in agents : e.instance # r.instance
                           /\ \A i \in 1..Len(runs) : runs[i].instance # r.instance
       /\ \A i \in 1..Len(runs') :
             runs'[i].pc = "done" => runs'[i].result.sessionId = runs'[i].sessionId]_vars

\* Two runs on one session id are in flight at once, on the same Agent.
C29_Witness ==
    /\ Len(runs) = 2
    /\ runs[1].pc = "chat" /\ runs[2].pc = "chat"
    /\ runs[1].sessionId = runs[2].sessionId
    /\ runs[1].instance = runs[2].instance
    /\ Cardinality(agents) = 1

\* ------------------------------------------- claims about background extraction
\* A step in which an extraction that was running in the background ends.
ExtractionStep == tExtracting' < tExtracting

\* A step in which process(userMessage) starts a turn.
TurnStartStep == tTurns' > tTurns

\* C31: an extraction that is still running when later turns start never writes,
\* deletes or reorders Messages: the step that ends it leaves the messages, the
\* tool invocation records and the history already sent to the provider as they
\* were, and the history a turn sends is the default system prompt and the
\* persisted messages, whether or not an extraction has run or is running.
C31_ExtractionLeavesMessagesAlone ==
    [][/\ ExtractionStep => /\ messages' = messages
                            /\ toolCalls' = toolCalls
                            /\ tHistory' = tHistory
       /\ TurnStartStep => /\ tHistory'.system = [prompt |-> "default", context |-> << >>]
                           /\ tHistory'.messages = messages'
                           /\ tHistory'.messages =
                                  Append(messages, [id |-> Len(messages) + 1,
                                                    sessionId |-> "s1", role |-> "user",
                                                    content |-> tText', timestamp |-> now])
      ]_vars

\* The second turn waits for its completion while the extraction of the first is
\* still running.
C31_Witness ==
    /\ tTurns = 2
    /\ tPc = "chat"
    /\ tExtracting > 0
    /\ Len(tHistory.messages) = 3
    /\ tHistory.messages = messages

\* ------------------------------------------------- claims about the sweep's reach
\* A step of cleanupExpiredMemories: the one step that records a sweep and leaves
\* the clock, the id counter and the record of the session operations alone.
SweepStep ==
    /\ last'.op = "sweep"
    /\ now' = now
    /\ nextId' = nextId
    /\ sLast' = sLast

\* C32: a sweep deletes only facts whose userId is set and, when a target user is
\* given, is that user; facts of other users and facts with a null userId stay as
\* they are, and so do all sessions, messages and tool invocation records.
C32_SweepConfinedToTargetedUsers ==
    [][SweepStep =>
          /\ memories' \subseteq memories
          /\ \A m \in memories \ memories' :
                /\ m.userId # Null
                /\ last'.user # Null => m.userId = last'.user
          /\ \A m \in memories :
                (m.userId = Null \/ (last'.user # Null /\ m.userId # last'.user))
                    => m \in memories'
          /\ sessions' = sessions
          /\ messages' = messages
          /\ toolCalls' = toolCalls
      ]_vars

\* A sweep for u1 deleted the newest fact as aged out, while an equally old fact
\* of u2, a fact without a user, a session, a message and a tool invocation record,
\* all written two days before, are still there.
C32_Witness ==
    /\ last.op = "sweep"
    /\ last.user = "u1"
    /\ \E m \in last.ageDeleted : m.id = MaxFacts /\ m.userId = "u1"
    /\ \E m \in memories : m.userId = "u2" /\ m.importance = 1 /\ m.createdAt = 0
    /\ \E m \in memories : m.userId = Null
    /\ \E session \in sessions : session.id = "s1"
    /\ Len(messages) = 1
    /\ Len(toolCalls) = 1
    /\ sLast.op = "addToolCall"
    /\ sLast.at = 0

\* The facts of user u the age pass of a sweep starting now leaves in mem.
LeftByAgePass(mem, u) == {m \in mem : m.userId = u /\ ~OldAndMinor(m)}

\* C33: the capacity pass counts the facts the age pass left and deletes exactly
\* the surplus: after a sweep a swept user holds min(c, maxMemoriesPerUser) facts,
\* c being the number the age pass left, every one of them a fact the age pass
\* left, and a fact is deleted only if it was aged out or its user was over the cap.
C33_CapacityPassDeletesExactSurplus ==
    [][(SweepStep /\ expiryConfig.enabled) =>
          /\ \A u \in last'.swept :
                LET c == Cardinality(LeftByAgePass(memories, u))
                IN /\ Cardinality({m \in memories' : m.userId = u})
                         = Min(c, expiryConfig.maxMemoriesPerUser)
                   /\ {m \in memories' : m.userId = u} \subseteq LeftByAgePass(memories, u)
          /\ \A m \in memories \ memories' :
                \/ OldAndMinor(m)
                \/ Cardinality(LeftByAgePass(memories, m.userId))
                       > expiryConfig.maxMemoriesPerUser
      ]_vars

\* A sweep took one fact of a user as aged out and one more as surplus, and a
\* third fact of that user is left: 3 facts, 2 after the age pass, 1 at the end.
C33_Witness ==
    /\ Swept
    /\ \E a \in last.ageDeleted, e \in last.capDeleted, m \in memories :
          /\ a.userId = e.userId
          /\ e.userId = m.userId
          /\ Cardinality(RowsOfUser(memories, m.userId)) = expiryConfig.maxMemoriesPerUser

\* ------------------------------------------- claims about malformed parameters
\* The parameters of a call of http_request are malformed: the required url is
\* missing, null or not a string, or there is no object at all, or an optional
\* parameter that is given and not null has a value of the wrong type.
Malformed(params) ==
    \/ ~params.isObject
    \/ params.fields["url"] # "string"
    \/ params.fields["headers"] \notin {Absent, "null", "object"}
    \/ params.fields["timeout"] \notin {Absent, "null", "number"}

\* A step of handleToolCalls in which one tool call is dispatched.
DispatchStep == Len(toolCalls') = Len(toolCalls) + 1 /\ tPc = "tools"

\* C34: a tool call with malformed parameters never reaches the tool's execute; it
\* yields a failed result with a non-empty error, the results of the other calls
\* stay as they are, the next call of the response is dispatched and after the
\* last one the turn returns a response; a call of a registered tool with
\* well-formed parameters does reach execute.
C34_MalformedCallIsIsolated ==
    [][DispatchStep =>
          LET record == toolCalls'[Len(toolCalls')]
              entry == tResults'[Len(tResults')]
          IN /\ Malformed(record.parameters) =>
                   /\ tExecuted' = tExecuted
                   /\ ~record.success
                   /\ ~entry.success
                   /\ entry.error \notin {Null, ""}
                   /\ tResults' = Append(tResults, entry)
                   /\ IF tIndex < Len(tResponse.toolCalls)
                         THEN tPc' = "tools" /\ tIndex' = tIndex + 1
                         ELSE tPc' = "ready" /\ tOutcome'.kind = "value"
             /\ (~Malformed(record.parameters) /\ record.toolName = "http_request")
                   => tExecuted' = Append(tExecuted, "http_request")
      ]_vars

\* A turn has returned a response after two calls of http_request: the first
\* without its url failed in validation, the second ran and succeeded.
C34_Witness ==
    /\ tPc = "ready"
    /\ tOutcome.kind = "value"
    /\ Len(tResults) = 2
    /\ ~tResults[1].success
    /\ tResults[1].error = "Missing required parameter: url"
    /\ tResults[2].success
    /\ tExecuted = <<"http_request">>
    /\ toolCalls[1].parameters = NoUrl
    /\ toolCalls[2].parameters = UrlOnly

\* --------------------------------------------- claims about the runner's users
\* C35: every live runtime has the user of its persisted session: under each
\* session id of the runner's map there is a session in the store, and its userId
\* is the userId of the Agent.
C35_RuntimeUserIsSessionUser ==
    \A e \in agents :
        /\ \E session \in sessions : session.id = e.sessionId
        /\ \A session \in sessions : session.id = e.sessionId => session.userId = e.userId

\* ------------------------------------------ claims about the system prompt
\* Run i constructed its Agent: no earlier run was served by the same Agent.
Constructs(rs, i) == \A j \in 1..(i - 1) : rs[j].instance # rs[i].instance

\* A run that constructs its Agent with a system prompt of the caller sends that
\* prompt as the system message.
SuppliedPromptIsSent(rs) ==
    \A i \in 1..Len(rs) :
        (rs[i].systemPrompt # Null /\ Constructs(rs, i))
            => rs[i].history.system.prompt = rs[i].systemPrompt

\* C36: a system prompt the caller supplied, with options.systemPrompt or with
\* setSystemPrompt, stays the system message: a run that constructs its Agent with
\* one sends it, and no step other than a setSystemPrompt changes the prompt of a
\* live Agent that has the caller's prompt.
C36_SuppliedPromptStays ==
    [][/\ SuppliedPromptIsSent(runs')
       /\ \A e \in agents, f \in agents' :
             (/\ e.key = f.key
              /\ e.instance = f.instance
              /\ e.systemPrompt.prompt = "custom"
              /\ sLast'.op # "setSystemPrompt")
                 => f.systemPrompt.prompt = "custom"
      ]_vars

\* --------------------------------------- claims about the completion request
\* The messages persisted for a session, in the order they were persisted.
PersistedHistory(msgs, sessionId) == SelectSeq(msgs, LAMBDA m : m.sessionId = sessionId)

\* A step in which a run issues its completion request.
RequestStep == Len(runs') = Len(runs) + 1

\* C37: the context of every completion request is the system prompt of the
\* runtime, then the persisted history of its session and nothing of another
\* session, and its last message is the user message that very turn persisted,
\* whatever turns on the same session or on other sessions are in flight.
C37_RequestIsPromptThenHistory ==
    [][RequestStep =>
          LET run == runs'[Len(runs')]
              sent == run.history.messages
          IN /\ \E e \in agents' : /\ e.key = run.sessionId
                                     /\ e.instance = run.instance
                                     /\ run.history.system = e.systemPrompt
             /\ sent = PersistedHistory(messages', run.sessionId)
             /\ Len(sent) > 0
             /\ sent[Len(sent)].role = "user"
             /\ sent[Len(sent)].content = run.message
             /\ sent[Len(sent)] \notin Range(messages)
             /\ sent[Len(sent)] = messages'[Len(messages')]
      ]_vars

\* A second turn on a session sent its request while the first, begun a second
\* earlier with another text, was still waiting for its completion.
C37_Witness ==
    /\ Len(runs) = MaxRuns
    /\ runs[1].sessionId = runs[2].sessionId
    /\ runs[1].pc = "chat"
    /\ runs[2].pc = "chat"
    /\ runs[1].message # runs[2].message
    /\ Len(runs[2].history.messages) = 2
    /\ runs[2].history.messages[1].content # runs[2].history.messages[2].content
    /\ runs[2].history.messages[1].timestamp < runs[2].history.messages[2].timestamp

\* ------------------------------------------------ claims about retried turns
UserMessages(msgs) == SelectSeq(msgs, LAMBDA m : m.role = "user")

\* C38: a call of process persists exactly one user message however many attempts
\* the completion call takes, and when attempts failed before one succeeded the
\* turn leaves exactly one user message and one assistant message.
C38_RetriedTurnPersistsOnePair ==
    /\ tTurns > 0 =>
          /\ Len(UserMessages(TurnMessages)) = 1
          /\ UserMessages(TurnMessages)[1].content = tText
    /\ (TurnEnded /\ tOutcome.kind = "value" /\ tAttempt > 1) =>
          Len(AssistantMessages(TurnMessages)) = 1

\* ------------------------------------------------ claims about listing bounds
\* C39: for every limit n >= 0 a listing of messages returns at most n messages,
\* so none for a limit of 0.
C39_ListingAtMostLimit ==
    (sLast.op = "getMessages" /\ sLast.limit # << >>) =>
        Len(sLast.result) <= sLast.limit[1]

\* ------------------------------------------ claims about the default runner
\* C40: the runner a call of createRunner has just returned has an open store,
\* also when a shutdown came before the call, so that a run on it can create its
\* session and save its messages.
C40_CreatedRunnerHasOpenStore == sLast.op = "createRunner" => storeOpen

====
